---------------------------- MODULE Spec2Model ----------------------------
(***************************************************************************)
(* A model of the content-acquisition and AI-analysis core of trendradar:  *)
(*   - ContentStore       (scraper/content_store.py), specification SpecStore  *)
(*   - ScraperRouter      (scraper/router.py),        specification SpecRouter *)
(* Each specification drives its own group of variables and leaves the     *)
(* other groups at their initial (idle) values.                             *)
(***************************************************************************)
EXTENDS Integers, Sequences, FiniteSets, TLC

VARIABLES
    \* ---- ContentStore ----
    now,            \* the wall clock read by datetime.now(), in ticks
    retention_days, \* ContentStore.retention_days
    rows,           \* the rows of table scraped_content
    nextId,         \* the AUTOINCREMENT sequence of column id
    ret,            \* what the last ContentStore call returned
    lastSaved,      \* history: per url, the arguments and time of the last save
    nSaves          \* history: per url, the number of saves so far

storeVars == <<now, retention_days, rows, nextId, ret, lastSaved, nSaves>>

VARIABLES
    \* ---- ScraperRouter ----
    router,         \* the router's configuration: enabled, scrapers, domain_rules, top_n,
                    \* max_retries
    call,           \* one ScraperRouter.scrape call: its position and history
    batch,          \* one ScraperRouter.scrape_batch call: arguments, locals, result
    tasks           \* the scrape_with_semaphore tasks of the batch, by position

routerVars == <<router, call, batch, tasks>>

VARIABLES
    \* ---- AIAnalyzer / HotspotAnalyzer ----
    insightCall,    \* one AIAnalyzer.extract_insights call
    analysis,       \* one AIAnalyzer.analyze_full call
    hotspot         \* one HotspotAnalyzer._parse_response call

llmVars == <<insightCall, analysis, hotspot>>

VARIABLES
    \* ---- LLMClient ----
    client          \* one LLMClient and the chat call made on it

VARIABLES
    \* ---- PlaywrightScraper ----
    pw              \* one PlaywrightScraper, the scrape calls and the close call
                    \* made on it, and the drivers, browsers, contexts and pages
                    \* they started

vars == <<storeVars, routerVars, llmVars, client, pw>>

\* what the operations of one component leave unchanged in the others
outsideStore == <<routerVars, llmVars, client, pw>>
outsideRouter == <<storeVars, llmVars, client, pw>>
outsideLLM == <<storeVars, routerVars, client, pw>>
outsideClient == <<storeVars, routerVars, llmVars, pw>>
outsidePlaywright == <<storeVars, routerVars, llmVars, client>>

-----------------------------------------------------------------------------
(* Bounds of the model *)

\* the clock runs over 0..MaxTime ticks
MaxTime == 3
\* ticks per day: a datetime is (day, fraction) with fraction in 0..TicksPerDay-1
TicksPerDay == 2
\* retention_days is drawn from 0..MaxRetention
MaxRetention == 1
\* at most MaxSaves calls of save in one behaviour
MaxSaves == 2
\* an explicit word_count argument is drawn from 0..MaxWordCount
MaxWordCount == 1
\* scrape_batch is called with at most MaxUrls urls
MaxUrls == 3
\* top_n is drawn from 0..MaxTopN
MaxTopN == 2
\* max_concurrent is drawn from 1..MaxConcurrent
MaxConcurrent == 2
MaxLines == 6
MaxItems == 1
MaxNews == 4
MaxTokens == 4
MaxRetries == 2
MaxStreamLines == 2
\* the scrape calls made on one PlaywrightScraper, and its close calls
MaxScrapes == 2
MaxCloses == 1

-----------------------------------------------------------------------------
(* Values *)

\* Python None / SQL NULL: for a value held as a tuple (an optional x is <<x>>),
\* and for a string
None == <<>>
Null == "NULL"

Urls == {"https://x/a", "https://y/b"}

Contents == {"", "ab"}

ScraperTypeValues == {"jina_reader", "playwright", "simple"}

\* hashlib.md5(url).hexdigest(): a digest, distinct for the distinct urls here
_hash_url(url) == <<"md5", url>>

\* datetime.isoformat(): the fixed-width date-and-seconds field, followed by
\* ".ffffff" only when the microsecond part is not zero
isoformat(t) ==
    LET d == t \div TicksPerDay
        f == t % TicksPerDay
    IN  IF f = 0 THEN <<d>> ELSE <<d, -1, f>>

\* now + timedelta(days = n)
PlusDays(t, n) == t + n * TicksPerDay

\* SQLite's comparison of two TEXT values (BINARY collation: memcmp, and of two
\* texts one of which is a prefix of the other the shorter is the smaller).
\* The "." of the fraction (here -1) sorts below every digit.
RECURSIVE TextLess(_, _)
TextLess(a, b) ==
    IF b = <<>> THEN FALSE
    ELSE IF a = <<>> THEN TRUE
    ELSE IF Head(a) # Head(b) THEN Head(a) < Head(b)
    ELSE TextLess(Tail(a), Tail(b))

\* json.dumps / json.loads of a list or a dict
JsonDumps(v) == <<"json", v>>
JsonLoads(s) == s[2]

\* ScrapedContent.__post_init__ after the dataclass constructor: word_count is
\* computed only when content is non-empty and word_count is 0
ScrapedContent(url, title, content, html_content, author, publish_time, word_count, images, metadata) ==
    [url |-> url, title |-> title, content |-> content, html_content |-> html_content,
     author |-> author,
     publish_time |-> publish_time,
     word_count |-> IF content # "" /\ word_count = 0 THEN Len(content) ELSE word_count,
     images |-> images, metadata |-> metadata]

\* The bodies handed to save: every combination of url, content and explicit
\* word_count; the body with text has every other field set, the body without
\* text has them defaulted.
BodyOf(url, content, word_count) ==
    IF content # ""
    THEN ScrapedContent(url, "T", content, "<p>", "A", <<1>>, word_count, <<"i.png">>, <<"source", "simple">>)
    ELSE ScrapedContent(url, "", content, "", "", None, word_count, <<>>, <<>>)

Bodies ==
    { BodyOf(u, c, w) : u \in Urls, c \in Contents, w \in 0..MaxWordCount }

-----------------------------------------------------------------------------
(* The state of each component before any of its operations is called *)

\* the store before any call
StoreIdle ==
    /\ now = 0
    /\ rows = {}
    /\ nextId = 1
    /\ ret = [op |-> Null, url |-> Null, urls |-> <<>>, at |-> 0, failed |-> FALSE,
              value |-> None]
    /\ lastSaved = [u \in Urls |-> None]
    /\ nSaves = [u \in Urls |-> 0]

\* no scrape and no scrape_batch call made yet
NoCall == [pc |-> "idle", url |-> "", order |-> <<>>, pos |-> 0, calls |-> <<>>,
           returns |-> <<>>, last_error |-> <<>>, result |-> None, exception |-> None]

NoBatch == [pc |-> "idle", urls |-> <<>>, max_concurrent |-> 0, semaphore |-> 0,
            completed |-> 0, progress |-> <<>>, finished |-> <<>>, collected |-> <<>>,
            results |-> <<>>]

\* one PlaywrightScraper.scrape call not yet made
NoScrape == [pc |-> "idle", browser |-> None, outcome |-> "none", result |-> "none",
             context_close_failed |-> FALSE]

\* PlaywrightScraper(config) after __init__: no driver, no browser
NoPlaywright ==
    [_browser |-> None, _playwright |-> None,
     drivers |-> {}, browsers |-> {}, contexts |-> {}, pages |-> {},
     launches |-> 0, closes |-> 0,
     scrapes |-> [i \in 1..MaxScrapes |-> NoScrape],
     closing |-> [pc |-> "idle", target |-> None]]

RouterIdle ==
    /\ call = NoCall
    /\ batch = NoBatch
    /\ tasks = <<>>
    /\ pw = NoPlaywright

\* ScraperRouter(config = None): every fetcher enabled, no domain rule
DefaultRouter ==
    [enabled |-> TRUE, scrapers |-> {"jina_reader", "simple", "playwright"},
     domain_rules |-> <<>>, top_n |-> 20, max_retries |-> 2]

RouterUnused ==
    /\ router = DefaultRouter
    /\ RouterIdle

\* no extract_insights call made yet
NoInsightCall == [pc |-> "idle", available |-> TRUE, news_items |-> 0,
                  reply |-> None, value |-> <<>>]

\* AnalysisResult(success): every other field at its dataclass default
\* (the briefing is a text, a sequence of lines: the empty string is <<>>)
AnalysisResult(success) ==
    [success |-> success, daily_briefing |-> <<>>, categories |-> <<>>,
     insights |-> <<>>, generated_at |-> "", model_used |-> "", error |-> ""]

\* no analyze_full call made yet
NoAnalysis ==
    [pc |-> "idle", available |-> TRUE, has_categories |-> TRUE, news_items |-> 0,
     enable_briefing |-> TRUE, enable_insight |-> TRUE, enable_category |-> TRUE,
     tasks |-> <<>>, pos |-> 0, inflight |-> Null,
     briefing_reply |-> None, insights_reply |-> None,
     items |-> <<>>, semaphore |-> 0, result |-> None]

\* AIAnalysisResult(raw_response): every other field at its dataclass default
\* (a report text is a sequence of pieces, the empty string is <<>>)
AIAnalysisResult(raw_response) ==
    [summary |-> <<>>, keyword_analysis |-> <<>>, sentiment |-> <<>>,
     cross_platform |-> <<>>, impact |-> <<>>, signals |-> <<>>, conclusion |-> <<>>,
     raw_response |-> raw_response, success |-> FALSE, error |-> ""]

\* no _parse_response call made yet
NoException == [type |-> "none", status |-> 0, msg |-> ""]

NoHotspot == [pc |-> "idle", response |-> <<>>, result |-> AIAnalysisResult(<<>>),
              base_url |-> "", exception |-> NoException]

\* LLMClient(config = None) with no environment variable set, before any call
NoClient ==
    [env |-> [LLM_API_BASE_URL |-> "", LLM_API_KEY |-> ""],
     config |-> [api_base_url |-> "", api_key |-> "", enabled |-> TRUE, max_retries |-> 2],
     api_base_url |-> "", api_key |-> "", enabled |-> FALSE, max_retries |-> 2,
     pc |-> "idle", op |-> Null, attempt |-> 0, sent |-> 0, requests |-> <<>>,
     sleeps |-> <<>>, last_error |-> None, result |-> None, lines |-> <<>>]

LLMIdle ==
    /\ insightCall = NoInsightCall
    /\ analysis = NoAnalysis
    /\ hotspot = NoHotspot
    /\ client = NoClient

-----------------------------------------------------------------------------
(* ContentStore *)

\* the row written by save's INSERT OR REPLACE statement
SaveRow(id, content, scraper_type, t) ==
    [id |-> id,
     url |-> content.url,
     url_hash |-> _hash_url(content.url),
     title |-> content.title,
     content |-> content.content,
     author |-> content.author,
     publish_time |-> IF content.publish_time # None
                      THEN isoformat(content.publish_time[1]) ELSE None,
     word_count |-> content.word_count,
     images |-> JsonDumps(content.images),
     metadata |-> JsonDumps(content.metadata),
     scraper_type |-> scraper_type,
     scraped_at |-> isoformat(t),
     expires_at |-> isoformat(PlusDays(t, retention_days))]

\* (an insert into a table without the UNIQUE constraint on url)
InsertKeepingOld(table, row) ==
    table \cup {row}

\* INSERT OR REPLACE: the UNIQUE constraint on url deletes the conflicting
\* rows before the new row is inserted
InsertOrReplace(table, row) ==
    {r \in table : r.url # row.url} \cup {row}

\* (a read that also admits a row whose expires_at equals the time of the read)
NotExpiredInclusive(r, t) ==
    r.expires_at = None \/ ~TextLess(r.expires_at, isoformat(t))

\* WHERE ... (expires_at IS NULL OR expires_at > ?)
NotExpired(r, t) ==
    r.expires_at = None \/ TextLess(isoformat(t), r.expires_at)

\* WHERE expires_at IS NOT NULL AND expires_at < ?
SweepMatches(r, t) ==
    r.expires_at # None /\ TextLess(r.expires_at, isoformat(t))

\* datetime.fromisoformat
fromisoformat(s) ==
    IF Len(s) = 1 THEN s[1] * TicksPerDay ELSE s[1] * TicksPerDay + s[3]

_row_to_content(row) ==
    ScrapedContent(row.url,
                   row.title,
                   row.content,
                   "",
                   row.author,
                   IF row.publish_time # None THEN <<fromisoformat(row.publish_time)>> ELSE None,
                   row.word_count,
                   JsonLoads(row.images),
                   JsonLoads(row.metadata))

\* what an operation leaves in ret when it returns
Returned(op, url, urls, failed, value) ==
    [op |-> op, url |-> url, urls |-> urls, at |-> now, failed |-> failed, value |-> value]

\* (a connection whose with block commits what the statement did although an
\* exception leaves the block)
RollbackKeepsStatement(before, after) == after

\* "with self._get_connection() as conn": when an exception leaves the block
\* the connection rolls back what the statement did
Rollback(before, after) == before

\* save: its statement and commit succeed, or sqlite3 raises at the connect,
\* at the statement or at the commit and the except clause returns False
save(content, scraper_type) ==
    /\ nextId <= MaxSaves
    /\ LET written == InsertOrReplace(rows, SaveRow(nextId, content, scraper_type, now))
       IN  \/ /\ rows' = written
              /\ nextId' = nextId + 1
              /\ ret' = Returned("save", content.url, <<>>, FALSE, <<TRUE>>)
              /\ lastSaved' = [lastSaved EXCEPT ![content.url] =
                                  <<[content |-> content, scraper_type |-> scraper_type,
                                     at |-> now]>>]
              /\ nSaves' = [nSaves EXCEPT ![content.url] = @ + 1]
           \/ /\ rows' \in {rows, Rollback(rows, written)}
              /\ ret' = Returned("save", content.url, <<>>, TRUE, <<FALSE>>)
              /\ UNCHANGED <<nextId, lastSaved, nSaves>>
    /\ UNCHANGED <<now, retention_days, outsideStore>>

\* get: fetchone gives a selected row or None; on an exception the except
\* clause returns None
get(url) ==
    LET found == {r \in rows : r.url_hash = _hash_url(url) /\ NotExpired(r, now)}
    IN  /\ \/ /\ found = {}
              /\ ret' = Returned("get", url, <<>>, FALSE, None)
           \/ \E row \in found :
                 ret' = Returned("get", url, <<>>, FALSE, <<_row_to_content(row)>>)
           \/ ret' = Returned("get", url, <<>>, TRUE, None)
        /\ UNCHANGED <<now, retention_days, rows, nextId, lastSaved, nSaves, outsideStore>>

\* exists: SELECT 1 ... LIMIT 1; on an exception the except clause returns False
exists(url) ==
    LET found == {r \in rows : r.url_hash = _hash_url(url) /\ NotExpired(r, now)}
    IN  /\ \/ ret' = Returned("exists", url, <<>>, FALSE, <<found # {}>>)
           \/ ret' = Returned("exists", url, <<>>, TRUE, <<FALSE>>)
        /\ UNCHANGED <<now, retention_days, rows, nextId, lastSaved, nSaves, outsideStore>>

\* the rows selected by the statement of get_batch
BatchFound(urls) ==
    {r \in rows : /\ \E i \in DOMAIN urls : r.url_hash = _hash_url(urls[i])
                  /\ NotExpired(r, now)}

\* results[content.url] = content for every row the loop of get_batch has read
BatchResults(read) ==
    [u \in {r.url : r \in read} |-> _row_to_content(CHOOSE r \in read : r.url = u)]

\* What get_batch returns, with whether an exception was caught: {} for no
\* urls without touching the database; the selected rows; or, when sqlite3
\* raises at the connect, at the statement or while the cursor is iterated, the
\* rows read until then (the cursor gives the rows in no particular order).
GetBatchOutcomes(urls) ==
    IF urls = <<>>
    THEN {[failed |-> FALSE, results |-> BatchResults({})]}
    ELSE {[failed |-> FALSE, results |-> BatchResults(BatchFound(urls))]}
         \cup {[failed |-> TRUE, results |-> BatchResults(read)] :
                  read \in SUBSET BatchFound(urls)}

get_batch(urls) ==
    /\ \E o \in GetBatchOutcomes(urls) :
          ret' = Returned("get_batch", Null, urls, o.failed, <<o.results>>)
    /\ UNCHANGED <<now, retention_days, rows, nextId, lastSaved, nSaves, outsideStore>>

\* (a filter that names every new url once)
NewUrlsOnce(urls, existing) ==
    LET new == SelectSeq(urls, LAMBDA url : url \notin DOMAIN existing)
    IN  SelectSeq([i \in DOMAIN new |-> IF \E j \in 1..(i - 1) : new[j] = new[i]
                                       THEN Null ELSE new[i]],
                  LAMBDA url : url # Null)

\* [url for url in urls if url not in existing]
NewUrls(urls, existing) ==
    SelectSeq(urls, LAMBDA url : url \notin DOMAIN existing)

\* filter_new_urls: [] for no urls, else the urls that get_batch did not return
filter_new_urls(urls) ==
    /\ \E o \in GetBatchOutcomes(urls) :
          ret' = Returned("filter_new_urls", Null, urls, o.failed,
                          <<NewUrls(urls, o.results)>>)
    /\ UNCHANGED <<now, retention_days, rows, nextId, lastSaved, nSaves, outsideStore>>

\* cleanup_expired: the DELETE and its commit succeed and rowcount is returned,
\* or sqlite3 raises and the except clause returns 0
cleanup_expired ==
    LET gone == {r \in rows : SweepMatches(r, now)}
    IN  /\ \/ /\ rows' = rows \ gone
              /\ ret' = Returned("cleanup_expired", Null, <<>>, FALSE, <<Cardinality(gone)>>)
           \/ /\ rows' \in {rows, Rollback(rows, rows \ gone)}
              /\ ret' = Returned("cleanup_expired", Null, <<>>, TRUE, <<0>>)
        /\ UNCHANGED <<now, retention_days, nextId, lastSaved, nSaves, outsideStore>>

\* the url lists handed to get_batch and filter_new_urls: none, one url, two
\* urls, and a url named twice
UrlListChoices ==
    { <<>>,
      <<"https://x/a">>,
      <<"https://y/b", "https://x/a">>,
      <<"https://x/a", "https://y/b", "https://x/a">> }

\* the clock advances between calls
Tick ==
    /\ now < MaxTime
    /\ now' = now + 1
    /\ UNCHANGED <<retention_days, rows, nextId, ret, lastSaved, nSaves, outsideStore>>

InitStore ==
    /\ StoreIdle
    /\ retention_days \in 0..MaxRetention
    /\ RouterUnused
    /\ LLMIdle

NextStore ==
    \/ \E b \in Bodies : save(b, IF b.title = "" THEN Null ELSE "simple")
    \/ \E u \in Urls : get(u)
    \/ cleanup_expired
    \/ Tick

SpecStore == InitStore /\ [][NextStore]_vars

\* The store with all its operations, the batch reads included; the bodies
\* saved here differ in their url only.
BatchBodies == {BodyOf(u, "ab", 0) : u \in Urls}

NextStoreBatch ==
    \/ \E b \in BatchBodies : save(b, "simple")
    \/ \E u \in Urls : get(u)
    \/ \E u \in Urls : exists(u)
    \/ \E urls \in UrlListChoices : get_batch(urls)
    \/ \E urls \in UrlListChoices : filter_new_urls(urls)
    \/ cleanup_expired
    \/ Tick

SpecStoreBatch == InitStore /\ [][NextStoreBatch]_vars

-----------------------------------------------------------------------------
(* ContentStore: properties *)

\* the time at which the row written by the last save of url u expires
ExpiryOfLastSave(u) == PlusDays(lastSaved[u][1].at, retention_days)

\* the columns of a ScrapedContent that the table stores (html_content is not
\* a column)
StoredFields(c) ==
    [url |-> c.url, title |-> c.title, content |-> c.content, author |-> c.author,
     publish_time |-> c.publish_time, word_count |-> c.word_count,
     images |-> c.images, metadata |-> c.metadata]

\* C1: after any sequence of save, get, cleanup_expired and clock advances,
\* get(u) at time t returns None if and only if u was never saved or the row
\* last saved for u has expires_at <= t; otherwise it returns the body last
\* saved for u (every stored field of it). (Calls whose database operation
\* raised are the subject of C19.)
C1_CacheFreshness ==
    (ret.op = "get" /\ ~ret.failed) =>
        LET ls == lastSaved[ret.url]
        IN  IF ls = None \/ ExpiryOfLastSave(ret.url) <= ret.at
            THEN ret.value = None
            ELSE /\ ret.value # None
                 /\ StoredFields(ret.value[1]) = StoredFields(ls[1].content)

\* C1 witness: a get of a saved url at exactly the time its row expires
C1_Witness ==
    /\ ret.op = "get"
    /\ ~ret.failed
    /\ lastSaved[ret.url] # None
    /\ ExpiryOfLastSave(ret.url) = ret.at
    /\ ret.value = None
    /\ \E r \in rows : r.url = ret.url

\* C2: save(b) followed by save(b') for the same url leaves exactly one row
\* for that url, and every stored field of that row (title, content, author,
\* publish_time, word_count, images, metadata, scraper_type, scraped_at,
\* expires_at) is the one written by the second (the last) save; so the row
\* left by saving a body twice differs from the row left by saving it once in
\* nothing but the timestamps.
C2_UpsertReplaces ==
    /\ \A u \in Urls :
          LET rs == {r \in rows : r.url = u}
          IN  /\ Cardinality(rs) <= 1
              /\ \A r \in rs :
                    /\ lastSaved[u] # None
                    /\ LET b == lastSaved[u][1].content
                       IN  /\ r.title = b.title
                           /\ r.content = b.content
                           /\ r.author = b.author
                           /\ r.publish_time = IF b.publish_time = None THEN None
                                               ELSE isoformat(b.publish_time[1])
                           /\ r.word_count = b.word_count
                           /\ r.images = JsonDumps(b.images)
                           /\ r.metadata = JsonDumps(b.metadata)
                           /\ r.scraper_type = lastSaved[u][1].scraper_type
                           /\ r.scraped_at = isoformat(lastSaved[u][1].at)
                           /\ r.expires_at = isoformat(ExpiryOfLastSave(u))
    /\ (ret.op = "save" /\ ~ret.failed) => Cardinality({r \in rows : r.url = ret.url}) = 1

\* C2 witness: a second save for a url has just returned and the table holds
\* one row for that url
C2_Witness ==
    /\ ret.op = "save"
    /\ ~ret.failed
    /\ nSaves[ret.url] >= 2
    /\ Cardinality({r \in rows : r.url = ret.url}) = 1

\* C8: every ScrapedContent that is constructed (here: handed to save) or that
\* get returns satisfies word_count = len(content), also when word_count was
\* given explicitly, and after a save followed by a read.
C8_WordCountLaw ==
    /\ \A u \in Urls :
          lastSaved[u] # None =>
              lastSaved[u][1].content.word_count = Len(lastSaved[u][1].content.content)
    /\ (ret.op = "get" /\ ret.value # None) =>
          ret.value[1].word_count = Len(ret.value[1].content)


\* C16: cleanup_expired deletes every row whose expires_at <= now, a row whose
\* expires_at equals now included, leaves the rows with expires_at > now or
\* NULL unchanged and returns the number of rows deleted; so after a sweep at
\* time t no row that get cannot see at t remains. (A sweep whose database
\* operation raised is the subject of C19.)
C16_SweepInclusive ==
    [][(cleanup_expired /\ ~ret'.failed) =>
          /\ rows' = {r \in rows : NotExpired(r, now)}
          /\ ret'.value = <<Cardinality(rows \ rows')>>]_vars


\* url has a row that a read at time t sees: it was saved and the row of its
\* last save expires after t
Fresh(url, t) == lastSaved[url] # None /\ ExpiryOfLastSave(url) > t

\* the urls of a list
Range(urls) == {urls[i] : i \in DOMAIN urls}

\* C19 as claimed: when the database operation of a ContentStore call fails,
\* get returns None, exists returns False, get_batch returns the empty map,
\* filter_new_urls returns all the input urls, save returns False and
\* cleanup_expired returns 0, the stored rows are unchanged, and none raises.
C19_FailureDefaults ==
    [][ret'.failed =>
          /\ rows' = rows
          /\ ret'.op = "get" => ret'.value = None
          /\ ret'.op = "exists" => ret'.value = <<FALSE>>
          /\ ret'.op = "get_batch" => DOMAIN ret'.value[1] = {}
          /\ ret'.op = "filter_new_urls" => ret'.value = <<ret'.urls>>
          /\ ret'.op = "save" => ret'.value = <<FALSE>>
          /\ ret'.op = "cleanup_expired" => ret'.value = <<0>>]_vars

\* C19 amended: as above, except that get_batch returns the bodies of the rows
\* it read before the failure (some of the unexpired rows of the urls, none
\* when the failure comes before the first row) and filter_new_urls returns
\* the input urls that are not among them, in input order.
C19_FailureDefaultsOrPartial ==
    [][ret'.failed =>
          /\ rows' = rows
          /\ ret'.op = "get" => ret'.value = None
          /\ ret'.op = "exists" => ret'.value = <<FALSE>>
          /\ ret'.op = "get_batch" =>
                /\ DOMAIN ret'.value[1] \subseteq {u \in Range(ret'.urls) : Fresh(u, ret'.at)}
                /\ \A u \in DOMAIN ret'.value[1] :
                      StoredFields(ret'.value[1][u]) = StoredFields(lastSaved[u][1].content)
          /\ ret'.op = "filter_new_urls" =>
                \E read \in SUBSET {u \in Range(ret'.urls) : Fresh(u, ret'.at)} :
                   ret'.value = <<SelectSeq(ret'.urls, LAMBDA u : u \notin read)>>
          /\ ret'.op = "save" => ret'.value = <<FALSE>>
          /\ ret'.op = "cleanup_expired" => ret'.value = <<0>>]_vars

\* C19 witness: a get_batch for two urls with unexpired rows caught an
\* exception after it had read one of the two rows
C19_Witness ==
    /\ ret.op = "get_batch"
    /\ ret.failed
    /\ \A u \in Range(ret.urls) : Fresh(u, ret.at)
    /\ Cardinality(Range(ret.urls)) = 2
    /\ Cardinality(DOMAIN ret.value[1]) = 1

\* C20: a filter_new_urls(urls) whose query succeeds returns exactly the input
\* urls that have no unexpired row, in input order (a url named twice is
\* returned twice), and a get_batch(urls) whose query succeeds returns exactly
\* the other urls of the list, each with the body last saved for it; so the
\* list a caller hands to scrape_batch after filtering holds no url with a
\* fresh row, and get_batch gives the caller the body of every url left out.
C20_FilterComplementsBatch ==
    /\ (ret.op = "filter_new_urls" /\ ~ret.failed) =>
          ret.value = <<SelectSeq(ret.urls, LAMBDA u : ~Fresh(u, ret.at))>>
    /\ (ret.op = "get_batch" /\ ~ret.failed) =>
          /\ DOMAIN ret.value[1] = {u \in Range(ret.urls) : Fresh(u, ret.at)}
          /\ \A u \in DOMAIN ret.value[1] :
                StoredFields(ret.value[1][u]) = StoredFields(lastSaved[u][1].content)

\* C20 witness: a filter of a list naming one url twice, where that url has no
\* unexpired row (its row has expired) and the other url has a fresh one
C20_Witness ==
    /\ ret.op = "filter_new_urls"
    /\ ~ret.failed
    /\ ret.urls = <<"https://x/a", "https://y/b", "https://x/a">>
    /\ ret.value = << <<"https://x/a", "https://x/a">> >>
    /\ \E r \in rows : r.url = "https://x/a"
    /\ Fresh("https://y/b", ret.at)

-----------------------------------------------------------------------------
(* ScraperRouter: selection of the fetchers for a url *)

JS_RENDER_DOMAINS ==
    {"weibo.com", "weibo.cn", "m.weibo.cn", "douyin.com", "www.douyin.com",
     "twitter.com", "x.com", "instagram.com", "facebook.com", "tiktok.com"}

JINA_PREFERRED_DOMAINS ==
    {"zhihu.com", "www.zhihu.com", "zhuanlan.zhihu.com", "mp.weixin.qq.com",
     "36kr.com", "www.36kr.com", "ithome.com", "www.ithome.com", "baidu.com",
     "news.baidu.com", "finance.sina.com.cn", "tech.sina.com.cn",
     "news.sina.com.cn", "sohu.com", "www.sohu.com", "qq.com", "news.qq.com",
     "thepaper.cn", "www.thepaper.cn", "jiemian.com", "www.jiemian.com"}

\* str.endswith
EndsWith(str, suffix) ==
    /\ Len(suffix) <= Len(str)
    /\ SubSeq(str, Len(str) - Len(suffix) + 1, Len(str)) = suffix

\* the character at position i of a string, as a string
CharAt(str, i) == SubSeq(str, i, i)

\* str.find(sub, start): the first position >= start where sub occurs, 0 if none
RECURSIVE Find(_, _, _)
Find(str, sub, start) ==
    IF start + Len(sub) - 1 > Len(str) THEN 0
    ELSE IF SubSeq(str, start, start + Len(sub) - 1) = sub THEN start
    ELSE Find(str, sub, start + 1)

\* str.lower on one character
LowerChar(c) ==
    CASE c = "A" -> "a" [] c = "B" -> "b" [] c = "C" -> "c" [] c = "D" -> "d"
      [] c = "E" -> "e" [] c = "F" -> "f" [] c = "G" -> "g" [] c = "H" -> "h"
      [] c = "I" -> "i" [] c = "J" -> "j" [] c = "K" -> "k" [] c = "L" -> "l"
      [] c = "M" -> "m" [] c = "N" -> "n" [] c = "O" -> "o" [] c = "P" -> "p"
      [] c = "Q" -> "q" [] c = "R" -> "r" [] c = "S" -> "s" [] c = "T" -> "t"
      [] c = "U" -> "u" [] c = "V" -> "v" [] c = "W" -> "w" [] c = "X" -> "x"
      [] c = "Y" -> "y" [] c = "Z" -> "z" [] OTHER -> c

RECURSIVE Lower(_)
Lower(str) ==
    IF str = "" THEN "" ELSE LowerChar(CharAt(str, 1)) \o Lower(SubSeq(str, 2, Len(str)))

\* the end of the netloc that starts at position i: the position before the
\* first "/", "?" or "#"
RECURSIVE NetlocEnd(_, _)
NetlocEnd(url, i) ==
    IF i > Len(url) \/ CharAt(url, i) \in {"/", "?", "#"} THEN i - 1
    ELSE NetlocEnd(url, i + 1)

\* urlparse(url).netloc: what stands between "//" and the path
Netloc(url) ==
    LET k == Find(url, "://", 1)
    IN  IF k = 0 THEN "" ELSE SubSeq(url, k + 3, NetlocEnd(url, k + 3))

\* the urls scraped in the model
RouterUrls ==
    {"https://weibo.com/1", "https://Example.com/p", "https://www.zhihu.com/q",
     "https://netflix.com/t", "https://news.example.com/n"}

\* urlparse(url).netloc.lower() of the urls of the model (a table, so that the
\* strings are worked out once)
Domains == [url \in RouterUrls |-> Lower(Netloc(url))]

_extract_domain(url) == Domains[url]

_build_priority_list(primary) ==
    <<primary>> \o SelectSeq(<<"jina_reader", "simple", "playwright">>,
                             LAMBDA t : t # primary)

\* ScraperType(rule) raises ValueError when no member of the enum has the
\* value rule, and _get_scraper_priority lets it pass
PriorityRaises(url) ==
    /\ _extract_domain(url) \in DOMAIN router.domain_rules
    /\ router.domain_rules[_extract_domain(url)] \notin ScraperTypeValues

\* (a selection that looks at the built-in domain sets before the custom rules)
_get_scraper_priority_builtin_first(url) ==
    LET domain == _extract_domain(url)
    IN  IF \E js_domain \in JS_RENDER_DOMAINS :
                EndsWith(domain, js_domain) \/ domain = js_domain
        THEN _build_priority_list("playwright")
        ELSE IF \E jina_domain \in JINA_PREFERRED_DOMAINS :
                    EndsWith(domain, jina_domain) \/ domain = jina_domain
        THEN _build_priority_list("jina_reader")
        ELSE IF domain \in DOMAIN router.domain_rules
        THEN _build_priority_list(router.domain_rules[domain])
        ELSE <<"jina_reader", "simple", "playwright">>

\* the list _get_scraper_priority returns (when it does not raise)
_get_scraper_priority(url) ==
    LET domain == _extract_domain(url)
    IN  IF domain \in DOMAIN router.domain_rules
        THEN _build_priority_list(router.domain_rules[domain])
        ELSE IF \E js_domain \in JS_RENDER_DOMAINS :
                    EndsWith(domain, js_domain) \/ domain = js_domain
        THEN _build_priority_list("playwright")
        ELSE IF \E jina_domain \in JINA_PREFERRED_DOMAINS :
                    EndsWith(domain, jina_domain) \/ domain = jina_domain
        THEN _build_priority_list("jina_reader")
        ELSE <<"jina_reader", "simple", "playwright">>

-----------------------------------------------------------------------------
(* ScraperRouter.scrape: the fetch chain of one url *)

\* ScraperResult.failure / ScraperResult.success_result
Failure(error, scraper_type) ==
    [success |-> FALSE, content |-> None, error |-> error, scraper_type |-> scraper_type]

Success(content, scraper_type) ==
    [success |-> TRUE, content |-> <<content>>, error |-> <<>>, scraper_type |-> scraper_type]

\* what a fetcher's scrape(url) can return: a Success with the content it
\* extracted, or a Failure with that fetcher's error message
FailureReasons == {"timeout", "error"}

FetcherOutcomes(scraper_type, url, reasons) ==
    {Success(<<"content", scraper_type, url>>, scraper_type)}
    \cup {Failure(<<scraper_type, why>>, scraper_type) : why \in reasons}

\* the for loop of scrape from position `from` of the priority order: the first
\* position whose fetcher is in self.scrapers, 0 when the loop runs out
RECURSIVE NextEnabled(_, _)
NextEnabled(order, from) ==
    IF from > Len(order) THEN 0
    ELSE IF order[from] \in router.scrapers THEN from
    ELSE NextEnabled(order, from + 1)

\* the loop goes on from position `from`: the next enabled fetcher is invoked
\* (and awaited), or the loop is over and scrape returns the Failure made of
\* last_error
Continue(c, from) ==
    LET j == NextEnabled(c.order, from)
    IN  IF j = 0
        THEN [c EXCEPT !.pc = "returned", !.pos = 0,
                       !.result = <<Failure(<<"all scrapers failed", c.last_error>>, "simple")>>]
        ELSE [c EXCEPT !.pc = "awaiting", !.pos = j, !.calls = Append(@, c.order[j])]

\* scrape(url) up to its first await, or to its return when it awaits
\* nothing, or to the exception that leaves it
ScrapeStart(url) ==
    LET c == [NoCall EXCEPT !.url = url]
    IN  IF ~router.enabled
        THEN [c EXCEPT !.pc = "returned",
                       !.result = <<Failure(<<"scraping disabled">>, "simple")>>]
        ELSE IF router.scrapers = {}
        THEN [c EXCEPT !.pc = "returned",
                       !.result = <<Failure(<<"no scraper available">>, "simple")>>]
        ELSE IF PriorityRaises(url)
        THEN [c EXCEPT !.pc = "raised",
                       !.exception = <<"ValueError", router.domain_rules[_extract_domain(url)]>>]
        ELSE Continue([c EXCEPT !.order = _get_scraper_priority(url)], 1)

\* (a loop that records a Success but goes on to the next fetcher)
ScrapeResumeNoStop(c, result) ==
    LET r == [c EXCEPT !.returns = Append(@, result),
                       !.last_error = IF result.success THEN @ ELSE result.error]
    IN  Continue(r, c.pos + 1)

\* (a loop that keeps the first error instead of the last)
ScrapeResumeFirstError(c, result) ==
    LET r == [c EXCEPT !.returns = Append(@, result)]
    IN  IF result.success
        THEN [r EXCEPT !.pc = "returned", !.pos = 0, !.result = <<result>>]
        ELSE Continue([r EXCEPT !.last_error = IF @ = <<>> THEN result.error ELSE @],
                      c.pos + 1)

\* scrape resumed by the awaited fetcher's result, up to its next await or return
ScrapeResume(c, result) ==
    LET r == [c EXCEPT !.returns = Append(@, result)]
    IN  IF result.success
        THEN [r EXCEPT !.pc = "returned", !.pos = 0, !.result = <<result>>]
        ELSE Continue([r EXCEPT !.last_error = result.error], c.pos + 1)

\* the domain_rules configurations of the model
DomainRuleChoices ==
    { <<>>,
      [d \in {"weibo.com"} |-> "simple"],
      [d \in {"example.com"} |-> "playwright"],
      [d \in {"www.zhihu.com"} |-> "browser"] }

scrape(url) ==
    /\ call.pc = "idle"
    /\ call' = ScrapeStart(url)
    /\ UNCHANGED <<router, batch, tasks, outsideRouter>>

\* the fetcher awaited by scrape returns
FetcherReturns ==
    /\ call.pc = "awaiting"
    /\ \E result \in FetcherOutcomes(call.order[call.pos], call.url, FailureReasons) :
          call' = ScrapeResume(call, result)
    /\ UNCHANGED <<router, batch, tasks, outsideRouter>>

InitScrape ==
    /\ router \in [enabled : BOOLEAN,
                   scrapers : SUBSET {"jina_reader", "simple", "playwright"},
                   domain_rules : DomainRuleChoices,
                   top_n : {20},
                   max_retries : {0, 2}]
    /\ RouterIdle
    /\ StoreIdle
    /\ retention_days = 7
    /\ LLMIdle

NextScrape ==
    \/ \E url \in RouterUrls : scrape(url)
    \/ FetcherReturns

SpecScrape == InitScrape /\ [][NextScrape]_vars

-----------------------------------------------------------------------------
(* ScraperRouter.scrape: properties *)

IsPrefix(a, b) == Len(a) <= Len(b) /\ SubSeq(b, 1, Len(a)) = a

\* the priority order selected for a url, without the fetchers that are not enabled
EnabledOrder(url) ==
    SelectSeq(_get_scraper_priority(url), LAMBDA t : t \in router.scrapers)

\* C3: in scrape the enabled fetchers are invoked one at a time in the priority
\* order selected for the url, a fetcher is invoked only after every earlier one
\* has returned Failure, and the chain stops at the first Success; when the
\* url's primary kind is enabled and succeeds, no other fetcher is invoked.
C3_RouterOrder ==
    call.pc # "idle" =>
        /\ IsPrefix(call.calls, EnabledOrder(call.url))
        /\ Len(call.returns) = IF call.pc = "awaiting" THEN Len(call.calls) - 1
                                                       ELSE Len(call.calls)
        /\ \A j \in 1..(Len(call.calls) - 1) : ~call.returns[j].success
        /\ \A j \in 1..Len(call.returns) :
              call.returns[j].success =>
                  /\ j = Len(call.calls)
                  /\ call.pc = "returned"
                  /\ call.result = <<call.returns[j]>>
        /\ LET K == _get_scraper_priority(call.url)[1]
           IN  (/\ K \in router.scrapers
                /\ \E j \in 1..Len(call.returns) :
                      call.returns[j].success /\ call.returns[j].scraper_type = K)
               => call.calls = <<K>>

\* C3 witness: the chain fell back from a failed fetcher to a second one, which
\* succeeded and ended the chain although a third one is enabled
C3_Witness ==
    /\ call.pc = "returned"
    /\ Len(call.calls) = 2
    /\ call.result[1].success
    /\ Len(EnabledOrder(call.url)) = 3

\* C10: when every enabled fetcher tried for a url returns Failure, scrape
\* returns a Failure whose message carries the error of the last fetcher
\* attempted in the priority order, having tried every enabled fetcher exactly
\* once.
C10_LastErrorSurfaced ==
    (/\ call.pc = "returned"
     /\ call.calls # <<>>
     /\ \A j \in 1..Len(call.returns) : ~call.returns[j].success)
    => /\ call.calls = EnabledOrder(call.url)
       /\ \A t \in router.scrapers :
             Cardinality({j \in 1..Len(call.calls) : call.calls[j] = t}) = 1
       /\ call.result =
             <<Failure(<<"all scrapers failed", call.returns[Len(call.returns)].error>>,
                       "simple")>>

\* C10 witness: three fetchers were tried and failed, the first and the last with
\* different errors
C10_Witness ==
    /\ call.pc = "returned"
    /\ Len(call.calls) = 3
    /\ \A j \in 1..3 : ~call.returns[j].success
    /\ call.returns[1].error[2] # call.returns[3].error[2]
    /\ ~call.result[1].success


\* the built-in domain sets as _get_scraper_priority matches them
MatchesJs(domain) ==
    \E js_domain \in JS_RENDER_DOMAINS : EndsWith(domain, js_domain) \/ domain = js_domain

MatchesJina(domain) ==
    \E jina_domain \in JINA_PREFERRED_DOMAINS :
        EndsWith(domain, jina_domain) \/ domain = jina_domain

C21_RetryBudget ==
    call.pc \in {"awaiting", "returned"} => Len(call.calls) <= 1 + router.max_retries

\* host d matches a domain entry on a label boundary
MatchesEntry(d, entry) == d = entry \/ EndsWith(d, "." \o entry)

\* the priority list under case-folded matching on label boundaries
BoundaryOrder(url) ==
    LET d == _extract_domain(url)
        keys == {k \in DOMAIN router.domain_rules : MatchesEntry(d, Lower(k))}
    IN  IF keys # {}
        THEN _build_priority_list(router.domain_rules[CHOOSE k \in keys : TRUE])
        ELSE IF \E e \in JS_RENDER_DOMAINS : MatchesEntry(d, e)
        THEN _build_priority_list("playwright")
        ELSE IF \E e \in JINA_PREFERRED_DOMAINS : MatchesEntry(d, e)
        THEN _build_priority_list("jina_reader")
        ELSE <<"jina_reader", "simple", "playwright">>

\* C22: the router matches the host of a url against a domain entry (custom
\* rule or built-in set) by case-folded suffix matching on label boundaries:
\* the host matches when it equals the entry or ends with "." and the entry, so
\* netflix.com does not match x.com, and a sub-domain of a domain_rules key
\* gets the rule of that key.
C22_LabelBoundaryMatch ==
    (call.pc \in {"awaiting", "returned"} /\ call.order # <<>>) =>
        call.order = BoundaryOrder(call.url)

\* C18: no exception leaves scrape, for any url and any router configuration:
\* every error met while selecting or running a fetcher comes back as a
\* Failure outcome for the url.
C18_NoExceptionEscapes ==
    /\ call.pc # "raised"
    /\ call.pc = "returned" => call.result # None

-----------------------------------------------------------------------------
(* ScraperRouter.scrape_batch *)

Min(a, b) == IF a <= b THEN a ELSE b

\* (a batch that dispatches every url it is given)
AllUrls(urls) == urls

\* urls[:self.top_n], for top_n >= 0
UrlsToScrape(urls) == SubSeq(urls, 1, Min(router.top_n, Len(urls)))

\* (a semaphore that never blocks)
AlwaysFree(value) == TRUE

\* asyncio.Semaphore.acquire returns without waiting only while the value is positive
CanAcquire(value) == value > 0

\* (a dict that records a result only when the fetch succeeded)
DictSetOnSuccess(d, k, v) ==
    IF v.success THEN [x \in DOMAIN d \cup {k} |-> IF x = k THEN v ELSE d[x]] ELSE d

\* results[url] = result
DictSet(d, k, v) == [x \in DOMAIN d \cup {k} |-> IF x = k THEN v ELSE d[x]]

\* the urls handed to scrape_batch in the model
BatchUrls == {"https://weibo.com/1", "https://Example.com/p"}

\* the lists of at most n urls
UrlLists(n) == UNION { [1..k -> BatchUrls] : k \in 0..n }

\* the end of scrape_with_semaphore for task i, whose scrape returned as chain c:
\* completed += 1, the progress callback, the release of the semaphore (held is
\* 1 when the task held a permit before this step, 0 when it acquired it in
\* this step), and the task's completion as as_completed sees it
TaskEnd(i, c, held) ==
    /\ tasks' = [tasks EXCEPT ![i] = [pc |-> "done", chain |-> c]]
    /\ batch' = [batch EXCEPT !.completed = @ + 1,
                              !.progress = Append(@, <<batch.completed + 1, Len(tasks)>>),
                              !.semaphore = @ + held,
                              !.finished = Append(@, i)]

\* scrape raised in task i (chain c): the exception leaves "async with
\* semaphore", which gives the permit back, before completed += 1 and the
\* progress callback; the task is finished and holds the exception (this step
\* acquired the permit itself, so the value is as before)
TaskRaises(i, c) ==
    /\ tasks' = [tasks EXCEPT ![i] = [pc |-> "raised", chain |-> c]]
    /\ batch' = [batch EXCEPT !.finished = Append(@, i)]

scrape_batch(urls, max_concurrent) ==
    /\ batch.pc = "idle"
    /\ IF urls = <<>>
       THEN /\ batch' = [batch EXCEPT !.pc = "returned", !.urls = urls,
                                      !.max_concurrent = max_concurrent]
            /\ UNCHANGED tasks
       ELSE /\ batch' = [batch EXCEPT !.pc = "gathering", !.urls = urls,
                                      !.max_concurrent = max_concurrent,
                                      !.semaphore = max_concurrent]
            /\ tasks' = [i \in 1..Len(UrlsToScrape(urls)) |->
                            [pc |-> "pending",
                             chain |-> [NoCall EXCEPT !.url = UrlsToScrape(urls)[i]]]]
    /\ UNCHANGED <<router, call, outsideRouter>>

\* task i enters "async with semaphore" and runs scrape up to its first await
\* (the tasks are scheduled on the event loop by as_completed, and go on when
\* scrape_batch itself has raised)
TaskAcquire(i) ==
    /\ batch.pc \in {"gathering", "raised"}
    /\ tasks[i].pc = "pending"
    /\ CanAcquire(batch.semaphore)
    /\ LET c == ScrapeStart(tasks[i].chain.url)
       IN  IF c.pc = "returned"
           THEN TaskEnd(i, c, 0)
           ELSE IF c.pc = "raised"
           THEN TaskRaises(i, c)
           ELSE /\ tasks' = [tasks EXCEPT ![i] = [pc |-> "running", chain |-> c]]
                /\ batch' = [batch EXCEPT !.semaphore = @ - 1]
    /\ UNCHANGED <<router, call, outsideRouter>>

\* the fetcher awaited by task i returns, and the task runs up to its next await
TaskFetcherReturns(i) ==
    /\ tasks[i].pc = "running"
    /\ \E result \in FetcherOutcomes(tasks[i].chain.order[tasks[i].chain.pos],
                                     tasks[i].chain.url, {"timeout"}) :
          LET c == ScrapeResume(tasks[i].chain, result)
          IN  IF c.pc = "returned"
              THEN TaskEnd(i, c, 1)
              ELSE /\ tasks' = [tasks EXCEPT ![i].chain = c]
                   /\ UNCHANGED batch
    /\ UNCHANGED <<router, call, outsideRouter>>

\* the loop over asyncio.as_completed takes the next finished task: "await
\* coro" gives the task's (url, result), or raises the exception the task
\* holds, which nothing in scrape_batch catches
Collect ==
    /\ batch.pc = "gathering"
    /\ batch.finished # <<>>
    /\ LET i == Head(batch.finished)
       IN  IF tasks[i].pc = "raised"
           THEN batch' = [batch EXCEPT !.pc = "raised", !.finished = Tail(@)]
           ELSE batch' = [batch EXCEPT !.finished = Tail(@),
                                       !.collected = Append(@, i),
                                       !.results = DictSet(@, tasks[i].chain.url,
                                                           tasks[i].chain.result[1])]
    /\ UNCHANGED <<router, call, tasks, outsideRouter>>

\* every task was taken: scrape_batch returns results
BatchReturn ==
    /\ batch.pc = "gathering"
    /\ batch.finished = <<>>
    /\ \A i \in DOMAIN tasks : tasks[i].pc = "done"
    /\ batch' = [batch EXCEPT !.pc = "returned"]
    /\ UNCHANGED <<router, call, tasks, outsideRouter>>

\* (the batch runs without custom domain rules, or with one rule whose value
\* names no ScraperType; the selection of the fetchers is explored by
\* SpecScrape)
InitBatch ==
    /\ router \in [enabled : BOOLEAN,
                   scrapers : {{"jina_reader", "simple", "playwright"}, {"simple"}},
                   domain_rules : {<<>>, [d \in {"weibo.com"} |-> "browser"]},
                   top_n : 0..MaxTopN,
                   max_retries : {2}]
    /\ RouterIdle
    /\ StoreIdle
    /\ retention_days = 7
    /\ LLMIdle

NextBatch ==
    \/ \E urls \in UrlLists(MaxUrls), max_concurrent \in 1..MaxConcurrent :
          scrape_batch(urls, max_concurrent)
    \/ \E i \in DOMAIN tasks : TaskAcquire(i)
    \/ \E i \in DOMAIN tasks : TaskFetcherReturns(i)
    \/ Collect
    \/ BatchReturn

SpecBatch == InitBatch /\ [][NextBatch]_vars

-----------------------------------------------------------------------------
(* ScraperRouter.scrape_batch: properties *)

\* the tasks whose fetch chain has started and has not finished
InFlight == {i \in DOMAIN tasks : tasks[i].pc = "running"}

\* the tasks whose fetch chain has started
Dispatched == {i \in DOMAIN tasks : tasks[i].pc # "pending"}

\* C4: for any list of urls and any top_n >= 0, one call of scrape_batch starts
\* at most top_n fetch chains: only the first top_n urls of the input are
\* dispatched, and no url beyond them is passed to a fetcher.
C4_BatchCap ==
    batch.pc # "idle" =>
        /\ Cardinality(Dispatched) <= router.top_n
        /\ \A i \in DOMAIN tasks :
              /\ i <= router.top_n
              /\ i <= Len(batch.urls)
              /\ tasks[i].chain.url = batch.urls[i]

\* C4 witness: a batch of more than top_n urls has returned after top_n >= 1
\* chains, each of which called a fetcher
C4_Witness ==
    /\ batch.pc = "returned"
    /\ router.top_n >= 1
    /\ Len(batch.urls) > router.top_n
    /\ Cardinality(Dispatched) = router.top_n
    /\ \A i \in DOMAIN tasks : tasks[i].chain.calls # <<>>

\* C5: in every reachable state of one scrape_batch call with max_concurrent
\* >= 1, the number of urls whose fetch chain has started and not yet finished
\* is at most max_concurrent.
C5_ConcurrencyBound ==
    batch.pc # "idle" => Cardinality(InFlight) <= batch.max_concurrent

\* C5 witness: max_concurrent chains are in flight and another task waits for
\* the semaphore
C5_Witness ==
    /\ batch.pc = "gathering"
    /\ Cardinality(InFlight) = batch.max_concurrent
    /\ \E i \in DOMAIN tasks : tasks[i].pc = "pending"


\* the task whose result the loop over as_completed took last for url
LastCollected(url) ==
    LET withUrl == {k \in DOMAIN batch.collected : tasks[batch.collected[k]].chain.url = url}
    IN batch.collected[CHOOSE k \in withUrl : \A m \in withUrl : m <= k]

\* C11: when scrape_batch returns, the keys of its result are exactly the first
\* top_n input urls, each once; every url is mapped to the outcome of its own
\* fetch chain (of the chain that completed last when the input names it
\* twice), and a url whose fetchers all failed is present with a Failure; for
\* every completion order.
C11_BatchResultMap ==
    batch.pc = "returned" =>
        /\ DOMAIN batch.results = {batch.urls[i] : i \in 1..Min(router.top_n, Len(batch.urls))}
        /\ \A i \in DOMAIN tasks : \E k \in DOMAIN batch.collected : batch.collected[k] = i
        /\ Len(batch.collected) = Len(tasks)
        /\ \A url \in DOMAIN batch.results :
              /\ batch.results[url] = tasks[LastCollected(url)].chain.result[1]
              /\ (\A i \in DOMAIN tasks :
                     tasks[i].chain.url = url => ~tasks[i].chain.result[1].success)
                    => ~batch.results[url].success
        /\ \A i \in DOMAIN tasks :
              (\A j \in DOMAIN tasks : tasks[j].chain.url = tasks[i].chain.url => j = i)
                 => batch.results[tasks[i].chain.url] = tasks[i].chain.result[1]

\* C11 witness: two different urls were fetched, the second finished first,
\* one chain failed in every fetcher it called and one succeeded, and the
\* batch has returned both
C11_Witness ==
    /\ batch.pc = "returned"
    /\ Len(tasks) = 2
    /\ tasks[1].chain.url # tasks[2].chain.url
    /\ batch.collected = <<2, 1>>
    /\ ~batch.results[tasks[1].chain.url].success
    /\ tasks[1].chain.calls # <<>>
    /\ batch.results[tasks[2].chain.url].success

\* the tasks that are over: scrape_with_semaphore returned or raised
Finished == {i \in DOMAIN tasks : tasks[i].pc \in {"done", "raised"}}

\* C28: during one scrape_batch call over n dispatched urls the progress
\* callback is called once for every url whose task is over, at the moment it
\* is over, and its k-th call is made with (k, n): completed counts 1, 2, ...
\* and total is n, in every interleaving of the tasks.
C28_ProgressPerUrl ==
    batch.pc # "idle" =>
        /\ Len(batch.progress) = Cardinality(Finished)
        /\ \A k \in DOMAIN batch.progress : batch.progress[k] = <<k, Len(tasks)>>

\* one step of a batch that was started: of a task, or of the loop over
\* as_completed
BatchStep ==
    \/ \E i \in DOMAIN tasks : TaskAcquire(i)
    \/ \E i \in DOMAIN tasks : TaskFetcherReturns(i)
    \/ Collect
    \/ BatchReturn

\* the event loop runs the tasks that are ready, and every fetcher call
\* returns: while a step of the batch is possible, one is taken in the end
\* (every step brings the batch nearer to its end, so this is enough)
FairBatch == WF_vars(BatchStep)

SpecBatchFair == SpecBatch /\ FairBatch

\* C29: when every fetcher call returns, a scrape_batch call that dispatched
\* tasks returns in the end, and by then every permit taken from the semaphore
\* is back and no task of the batch is waiting or running; also with fewer
\* permits than urls and with chains that fail.
C29_BatchReturnsClean ==
    (batch.pc = "gathering") ~>
        (/\ batch.pc = "returned"
         /\ batch.semaphore = batch.max_concurrent
         /\ Finished = DOMAIN tasks)

-----------------------------------------------------------------------------
(* AIAnalyzer.extract_insights *)

\* what `await self.client.chat(...)` gives its caller: the call raises after
\* its retries, or it returns a ChatResponse with the given content
ChatRaises == [ok |-> FALSE, content |-> <<>>]

ChatResponse(content) == [ok |-> TRUE, content |-> content]

ChatOutcomes(contents) == {ChatRaises} \cup {ChatResponse(c) : c \in contents}

\* A response text is the sequence of its lines (joined by "\n"); the lines
\* are the shapes the two patterns of _parse_insights tell apart.
TaggedLine == "1. [AI] abc"
DashTaggedLine == "- [Tech] xyz"
DashLine == "- abc"
NumberedLine == "2. abc"
PlainLine == "abc"
BlankLine == ""

Lines == {TaggedLine, DashTaggedLine, DashLine, NumberedLine, PlainLine, BlankLine}

\* (?:\d+\.\s*|\-\s*)\[ matches at the start of the line
HasMarker(line) == line \in {TaggedLine, DashTaggedLine}

\* group 1 of the pattern, stripped
DomainOf(line) == IF line = TaggedLine THEN "AI" ELSE "Tech"

\* what follows `]` and white space on a marker line
AfterTag(line) == IF line = TaggedLine THEN "abc" ELSE "xyz"

\* the index of the first marker line at or after i, Len(text) + 1 if none:
\* where the lookahead (?=(?:\d+\.\s*|\-\s*)\[|$) stops the lazy group
RECURSIVE NextMarker(_, _)
NextMarker(text, i) ==
    IF i > Len(text) THEN i
    ELSE IF HasMarker(text[i]) THEN i
    ELSE NextMarker(text, i + 1)

\* str.strip() of a text whose first line is not blank: trailing blank lines go
RECURSIVE StripEnd(_)
StripEnd(text) ==
    IF text # <<>> /\ text[Len(text)] = BlankLine
    THEN StripEnd(SubSeq(text, 1, Len(text) - 1))
    ELSE text

InsightItem(domain, content) == [domain |-> domain, content |-> content, importance |-> 0]

\* re.findall(pattern, text, re.DOTALL): one match per marker line, group 2
\* running up to the next marker or the end of the text
RECURSIVE PatternMatches(_, _)
PatternMatches(text, i) ==
    LET m == NextMarker(text, i)
        n == NextMarker(text, m + 1)
    IN IF m > Len(text) THEN <<>>
       ELSE <<InsightItem(DomainOf(text[m]),
                          StripEnd(<<AfterTag(text[m])>> \o SubSeq(text, m + 1, n - 1)))>>
            \o PatternMatches(text, n)

\* line.startswith('-') or line.startswith('•') or re.match(r'\d+\.', line)
IsListLine(line) == line \in {TaggedLine, DashTaggedLine, DashLine, NumberedLine}

\* re.sub(r'^[\d\.\-•\s]+', '', line).strip()
WithoutPrefix(line) ==
    CASE line = TaggedLine -> "[AI] abc"
      [] line = DashTaggedLine -> "[Tech] xyz"
      [] line = DashLine -> "abc"
      [] line = NumberedLine -> "abc"
      [] OTHER -> line

\* the line-by-line fallback: one insight of domain '综合' per list line
RECURSIVE ListLines(_, _)
ListLines(text, i) ==
    IF i > Len(text) THEN <<>>
    ELSE (IF text[i] # BlankLine /\ IsListLine(text[i]) /\ WithoutPrefix(text[i]) # ""
          THEN <<InsightItem("general", <<WithoutPrefix(text[i])>>)>>
          ELSE <<>>)
         \o ListLines(text, i + 1)

\* insights[:5]
InsightCap == 5

Take(seq, n) == SubSeq(seq, 1, Min(n, Len(seq)))

_parse_insights_uncapped(text) ==
    LET insights == PatternMatches(text, 1)
    IN IF insights # <<>> THEN insights ELSE ListLines(text, 1)

_parse_insights(text) ==
    LET insights == PatternMatches(text, 1)
    IN Take(IF insights # <<>> THEN insights ELSE ListLines(text, 1), InsightCap)

\* the response texts of n lines
Texts(n) == [1..n -> Lines]

\* what extract_insights returns once its LLM call has ended: the parsed
\* response, [] from the except branch
InsightsValue(outcome) ==
    IF outcome.ok THEN _parse_insights(outcome.content) ELSE <<>>

\* extract_insights up to its LLM request, or to its return when it sends none
extract_insights(news_items) ==
    /\ insightCall.pc = "idle"
    /\ insightCall' =
         IF ~insightCall.available \/ news_items = 0
         THEN [insightCall EXCEPT !.pc = "returned", !.news_items = news_items, !.value = <<>>]
         ELSE [insightCall EXCEPT !.pc = "awaiting", !.news_items = news_items]
    /\ UNCHANGED <<analysis, hotspot, outsideLLM>>

\* the LLM call ends: its response is parsed, its exception gives []
InsightsChatReturns ==
    /\ insightCall.pc = "awaiting"
    /\ \E n \in 0..MaxLines : \E outcome \in ChatOutcomes(Texts(n)) :
          insightCall' = [insightCall EXCEPT
                             !.pc = "returned",
                             !.reply = <<outcome>>,
                             !.value = InsightsValue(outcome)]
    /\ UNCHANGED <<analysis, hotspot, outsideLLM>>

InitInsights ==
    /\ insightCall \in {[NoInsightCall EXCEPT !.available = a] : a \in BOOLEAN}
    /\ analysis = NoAnalysis
    /\ hotspot = NoHotspot
    /\ client = NoClient
    /\ StoreIdle
    /\ retention_days = 7
    /\ RouterUnused

NextInsights ==
    \/ \E news_items \in 0..MaxItems : extract_insights(news_items)
    \/ InsightsChatReturns

SpecInsights == InitInsights /\ [][NextInsights]_vars

\* C9: extract_insights returns at most 5 insights for every item list and
\* every response, under the marker pattern and under the line fallback alike,
\* and returns the empty list when the LLM call failed.
C9_InsightLimit ==
    insightCall.pc = "returned" =>
        /\ Len(insightCall.value) <= 5
        /\ (insightCall.reply # None /\ ~insightCall.reply[1].ok) => insightCall.value = <<>>

\* a response with more than five marker items came back and five were returned
C9_Witness ==
    /\ insightCall.pc = "returned"
    /\ insightCall.reply # None
    /\ insightCall.reply[1].ok
    /\ Len(PatternMatches(insightCall.reply[1].content, 1)) > 5
    /\ Len(insightCall.value) = 5

-----------------------------------------------------------------------------
(* HotspotAnalyzer._parse_response *)

\* A response is the sequence of its pieces, concatenated: the two fence
\* markers (three backquotes, written <fence> here), JSON values, prose and
\* white space.
FenceJson == "<fence>json"
Fence == "<fence>"
FullObject == "{summary, keyword_analysis, sentiment, cross_platform, impact, signals, conclusion}"
PartialObject == "{summary}"
ArrayJson == "[1]"
Prose == "text"
Space == " "

Pieces == {FenceJson, Fence, FullObject, PartialObject, ArrayJson, Prose, Space}

JsonObjects == {FullObject, PartialObject}

ReportFields ==
    {"summary", "keyword_analysis", "sentiment", "cross_platform", "impact",
     "signals", "conclusion"}

\* data.get(key, ""): FullObject holds every field, PartialObject only summary
DataGet(object, key) ==
    IF object = FullObject \/ key = "summary" THEN <<"value of", key>> ELSE <<>>

\* the index of the first piece at or after i that belongs to marks,
\* Len(response) + 1 if none
RECURSIVE FindPiece(_, _, _)
FindPiece(response, marks, i) ==
    IF i > Len(response) THEN i
    ELSE IF response[i] \in marks THEN i
    ELSE FindPiece(response, marks, i + 1)

\* str.strip(): white space at both ends goes
RECURSIVE Strip(_)
Strip(text) ==
    IF text = <<>> THEN text
    ELSE IF text[1] = Space THEN Strip(Tail(text))
    ELSE IF text[Len(text)] = Space THEN Strip(SubSeq(text, 1, Len(text) - 1))
    ELSE text

\* the text json.loads is given: what follows the first <fence>json up to the
\* next <fence>, else parts[1] of response.split(<fence>, 2), else the whole response
JsonStr(response) ==
    LET j == FindPiece(response, {FenceJson}, 1)
        f == FindPiece(response, {Fence}, 1)
    IN IF j <= Len(response)
       THEN SubSeq(response, j + 1, FindPiece(response, {Fence, FenceJson}, j + 1) - 1)
       ELSE IF f <= Len(response)
       THEN SubSeq(response, f + 1, FindPiece(response, {Fence}, f + 1) - 1)
       ELSE response

\* the three except branches: the error names the exception, the raw response
\* (the modelled responses are shorter than the 1000 characters kept) becomes
\* the summary and success is set all the same
ParseError(result, response, error) ==
    [result EXCEPT !.error = error, !.summary = response, !.success = TRUE]

_parse_response(response) ==
    LET result == AIAnalysisResult(response)
        json_str == Strip(JsonStr(response))
    IN IF Strip(response) = <<>>
       THEN [result EXCEPT !.error = "empty response"]
       ELSE IF json_str = <<>>
       THEN ParseError(result, response, "ValueError")
       ELSE IF Len(json_str) = 1 /\ json_str[1] \in JsonObjects
       THEN [result EXCEPT
                !.summary = DataGet(json_str[1], "summary"),
                !.keyword_analysis = DataGet(json_str[1], "keyword_analysis"),
                !.sentiment = DataGet(json_str[1], "sentiment"),
                !.cross_platform = DataGet(json_str[1], "cross_platform"),
                !.impact = DataGet(json_str[1], "impact"),
                !.signals = DataGet(json_str[1], "signals"),
                !.conclusion = DataGet(json_str[1], "conclusion"),
                !.success = TRUE]
       ELSE IF json_str = <<ArrayJson>>
       THEN ParseError(result, response, "AttributeError")
       ELSE ParseError(result, response, "JSONDecodeError")

\* one call of _parse_response on a model response
HotspotParses(response) ==
    /\ hotspot.pc = "idle"
    /\ hotspot' = [NoHotspot EXCEPT !.pc = "parsed", !.response = response,
                                    !.result = _parse_response(response)]
    /\ UNCHANGED <<insightCall, analysis, outsideLLM>>

\* the analyzer is used again
HotspotReset ==
    /\ hotspot.pc \in {"parsed", "returned"}
    /\ hotspot' = NoHotspot
    /\ UNCHANGED <<insightCall, analysis, outsideLLM>>

\* the length to which analyze cuts the message of an HTTP error, and of any
\* other error
HttpErrorLimit == 100
ErrorLimit == 150

RECURSIVE Repeat(_, _)
Repeat(str, n) ==
    IF n = 0 THEN ""
    ELSE IF n = 1 THEN str
    ELSE Repeat(str, n \div 2) \o Repeat(str, n - n \div 2)

\* the exceptions _call_ai_api raises in the model: requests' Timeout and
\* ConnectionError, the HTTPError of raise_for_status with its response, an
\* HTTPError without a response, and other errors with a message of at most,
\* and of more than, ErrorLimit characters
ApiExceptions ==
    {[type |-> "Timeout", status |-> 0, msg |-> "timed out"],
     [type |-> "ConnectionError", status |-> 0, msg |-> "refused"]}
    \cup {[type |-> "HTTPError", status |-> st, msg |-> "http error"] :
             st \in {0, 401, 429, 500, 503}}
    \cup {[type |-> "KeyError", status |-> 0, msg |-> Repeat("e", n)] :
             n \in {1, ErrorLimit, ErrorLimit + 1}}

\* bool(e.response): a missing response is falsy, and requests.Response is
\* truthy exactly when its status is below 400
ResponseTruthy(e) == e.status # 0 /\ e.status < 400

\* e.response.status_code if hasattr(e, 'response') and e.response else the
\* text for "unknown"
StatusCode(e) == IF ResponseTruthy(e) THEN <<e.status>> ELSE None

StatusText(status_code) ==
    CASE status_code = None -> "unknown"
      [] status_code = <<401>> -> "401"
      [] status_code = <<429>> -> "429"
      [] status_code = <<500>> -> "500"
      [] OTHER -> "503"

\* str[:n]
Truncated(str, n) == SubSeq(str, 1, Min(n, Len(str)))

TimeoutMsg == "AI API request timed out"
AuthMsg == "AI API authentication failed"
RateMsg == "AI API rate limit exceeded"
ServerMsg == "AI API internal server error"

\* the friendly_msg chosen by the except clause of analyze
FriendlyMsg(e, base_url) ==
    CASE e.type = "Timeout" -> TimeoutMsg
      [] e.type = "ConnectionError" ->
            "cannot connect to AI API (" \o (IF base_url # "" THEN base_url ELSE "openai") \o ")"
      [] e.type = "HTTPError" ->
            (CASE StatusCode(e) = <<401>> -> AuthMsg
               [] StatusCode(e) = <<429>> -> RateMsg
               [] StatusCode(e) = <<500>> -> ServerMsg
               [] OTHER -> "AI API error (HTTP " \o StatusText(StatusCode(e)) \o "): "
                           \o Truncated(e.msg, HttpErrorLimit))
      [] OTHER ->
            "AI analysis failed (" \o e.type \o "): "
            \o (IF Len(e.msg) > ErrorLimit THEN Truncated(e.msg, ErrorLimit) \o "..."
                ELSE e.msg)

\* analyze, when _call_ai_api raises e: the except clause returns a report
\* with success false and the friendly message
HotspotAnalyzeRaises(base_url, e) ==
    /\ hotspot.pc = "idle"
    /\ hotspot' = [NoHotspot EXCEPT
                      !.pc = "returned", !.base_url = base_url, !.exception = e,
                      !.result = [AIAnalysisResult(<<>>) EXCEPT
                                     !.error = FriendlyMsg(e, base_url)]]
    /\ UNCHANGED <<insightCall, analysis, outsideLLM>>

InitHotspot ==
    /\ hotspot = NoHotspot
    /\ insightCall = NoInsightCall
    /\ analysis = NoAnalysis
    /\ client = NoClient
    /\ StoreIdle
    /\ retention_days = 7
    /\ RouterUnused

NextHotspot ==
    \/ \E n \in 0..MaxTokens : \E response \in [1..n -> Pieces] : HotspotParses(response)
    \/ \E base_url \in {"", "https://api/v1"}, e \in ApiExceptions :
          HotspotAnalyzeRaises(base_url, e)
    \/ HotspotReset

SpecHotspot == InitHotspot /\ [][NextHotspot]_vars

\* the seven report fields of result are those of the JSON object
FieldsAre(result, object) ==
    /\ result.summary = DataGet(object, "summary")
    /\ result.keyword_analysis = DataGet(object, "keyword_analysis")
    /\ result.sentiment = DataGet(object, "sentiment")
    /\ result.cross_platform = DataGet(object, "cross_platform")
    /\ result.impact = DataGet(object, "impact")
    /\ result.signals = DataGet(object, "signals")
    /\ result.conclusion = DataGet(object, "conclusion")

\* C7: for any response that contains a valid JSON object (whole, in a
\* json fence, in a generic fence, or surrounded by other text) the report
\* returned by _parse_response has that object's seven fields, success true
\* and an empty error.
C7_ParsesAnyJsonObject ==
    (hotspot.pc = "parsed" /\ \E i \in DOMAIN hotspot.response : hotspot.response[i] \in JsonObjects)
        => /\ \E i \in DOMAIN hotspot.response :
                 /\ hotspot.response[i] \in JsonObjects
                 /\ FieldsAre(hotspot.result, hotspot.response[i])
           /\ hotspot.result.success
           /\ hotspot.result.error = ""

\* C27: when the AI API call of analyze fails, the report has success false
\* and an error message chosen by the failure: a timeout, a connection error
\* (with the base url) and the HTTP errors with status 401, 429 and 500 each
\* give their own canonical message, and any other error gives a message
\* labelled with the error type and cut to 150 characters.
C27_FriendlyErrors ==
    hotspot.pc = "returned" =>
        LET e == hotspot.exception
            error == hotspot.result.error
        IN /\ ~hotspot.result.success
           /\ e.type = "Timeout" => error = TimeoutMsg
           /\ e.type = "ConnectionError" =>
                 error = "cannot connect to AI API ("
                         \o (IF hotspot.base_url # "" THEN hotspot.base_url ELSE "openai")
                         \o ")"
           /\ (e.type = "HTTPError" /\ e.status = 401) => error = AuthMsg
           /\ (e.type = "HTTPError" /\ e.status = 429) => error = RateMsg
           /\ (e.type = "HTTPError" /\ e.status = 500) => error = ServerMsg
           /\ e.type = "KeyError" =>
                 error = "AI analysis failed (KeyError): "
                         \o (IF Len(e.msg) > 150 THEN SubSeq(e.msg, 1, 150) \o "..."
                             ELSE e.msg)

-----------------------------------------------------------------------------
(* AIAnalyzer.analyze_full and its three sub-tasks *)

\* news_items[:10] is what categorize_batch is given
CategorizeLimit == 10

\* categorize_batch(news_items, max_concurrent = 3)
CategorizeConcurrency == 3

\* the contents an LLM gives each sub-task
BriefingTexts == {<<"briefing text">>}

InsightTexts == {<<TaggedLine, PlainLine>>, <<DashLine, NumberedLine>>, <<PlainLine>>}

JsonReply == <<"{primary_category}">>
EmbeddedJsonReply == <<"text", "{primary_category}", "text">>
ProseReply == <<"text">>

CategoryTexts == {JsonReply, EmbeddedJsonReply, ProseReply}

\* _parse_json_response: json.loads of the whole text, else of the first
\* brace-free {...} the text holds, else None
_parse_json_response(text) ==
    IF text = JsonReply \/ \E i \in DOMAIN text : text[i] = JsonReply[1]
    THEN <<"primary_category">>
    ELSE None

CategoryResult(news_id, primary_category) ==
    [news_id |-> news_id, primary_category |-> primary_category,
     secondary_category |-> Null, confidence |-> 0, reason |-> ""]

\* what generate_daily_briefing returns once its LLM call has ended
BriefingValue(outcome) == IF outcome.ok THEN outcome.content ELSE <<>>

\* what categorize_news returns once its LLM call has ended: a CategoryResult,
\* or None when the call raised or the response holds no JSON object
categorize_news(outcome, news_id) ==
    IF outcome.ok /\ _parse_json_response(outcome.content) # None
    THEN <<CategoryResult(news_id, "tech")>>
    ELSE None

\* tasks, in the order analyze_full appends them
BuildTasks(a) ==
    (IF a.enable_briefing THEN <<"briefing">> ELSE <<>>)
    \o (IF a.enable_insight THEN <<"insights">> ELSE <<>>)
    \o (IF a.enable_category THEN <<"categories">> ELSE <<>>)

\* the if/elif chain that stores a sub-task's value in the result
Assign(result, name, value) ==
    CASE name = "briefing" -> [result EXCEPT !.daily_briefing = value]
      [] name = "insights" -> [result EXCEPT !.insights = value]
      [] name = "categories" -> [result EXCEPT !.categories = value]

\* categorize_batch starts: one categorize_single per item, the first
\* max_concurrent of them hold a permit and have sent their request
StartItems(n) ==
    [i \in 1..n |-> [pc |-> IF i <= CategorizeConcurrency THEN "inflight" ELSE "waiting",
                     reply |-> None, value |-> None]]

\* `await coro` for the task at position pos, run up to the sub-task's LLM
\* request; past the last task analyze_full returns.  is_available() and
\* news_items were checked by analyze_full, so within it only categorize_batch
\* can return without a request (no categories configured).
RECURSIVE StartTask(_, _)
StartTask(a, pos) ==
    IF pos > Len(a.tasks)
    THEN [a EXCEPT !.pc = "done", !.pos = pos, !.inflight = Null]
    ELSE IF a.tasks[pos] = "categories"
    THEN IF ~a.available \/ ~a.has_categories
         THEN StartTask([a EXCEPT !.result = <<Assign(a.result[1], "categories", <<>>)>>],
                        pos + 1)
         ELSE LET n == Min(a.news_items, CategorizeLimit)
              IN [a EXCEPT !.pos = pos, !.inflight = "categories",
                           !.items = StartItems(n),
                           !.semaphore = CategorizeConcurrency - Min(n, CategorizeConcurrency)]
    ELSE [a EXCEPT !.pos = pos, !.inflight = a.tasks[pos]]

\* a sub-task failure that ends the whole analysis (the outer except)
TaskReturnsOrAborts(a, name, value) ==
    IF value = <<>>
    THEN [a EXCEPT !.pc = "done", !.inflight = Null,
                   !.result = <<[a.result[1] EXCEPT !.success = FALSE, !.error = name]>>]
    ELSE StartTask([a EXCEPT !.result = <<Assign(a.result[1], name, value)>>], a.pos + 1)

\* the awaited sub-task returned value: it is stored and the loop goes on
TaskReturns(a, name, value) ==
    StartTask([a EXCEPT !.result = <<Assign(a.result[1], name, value)>>], a.pos + 1)

\* (a result that is created without its time and model)
BareResult == AnalysisResult(TRUE)

\* AnalysisResult(success=True, generated_at=datetime.now().isoformat(),
\* model_used=self.client.model_name)
NewResult ==
    [AnalysisResult(TRUE) EXCEPT !.generated_at = "now", !.model_used = "model_name"]

\* analyze_full up to the first LLM request, or to its return
analyze_full(news_items) ==
    /\ analysis.pc = "idle"
    /\ analysis' =
         IF ~analysis.available
         THEN [analysis EXCEPT !.pc = "done", !.news_items = news_items,
                  !.result = <<[AnalysisResult(FALSE) EXCEPT !.error = "LLM client unavailable"]>>]
         ELSE IF news_items = 0
         THEN [analysis EXCEPT !.pc = "done", !.news_items = news_items,
                  !.result = <<[AnalysisResult(FALSE) EXCEPT !.error = "no news items"]>>]
         ELSE StartTask([analysis EXCEPT
                            !.pc = "running",
                            !.news_items = news_items,
                            !.tasks = BuildTasks(analysis),
                            !.result = <<NewResult>>],
                        1)
    /\ UNCHANGED <<insightCall, hotspot, outsideLLM>>

\* the LLM call of generate_daily_briefing ends
BriefingChatReturns ==
    /\ analysis.pc = "running"
    /\ analysis.inflight = "briefing"
    /\ \E outcome \in ChatOutcomes(BriefingTexts) :
          analysis' = TaskReturns([analysis EXCEPT !.briefing_reply = <<outcome>>],
                                  "briefing", BriefingValue(outcome))
    /\ UNCHANGED <<insightCall, hotspot, outsideLLM>>

\* the LLM call of extract_insights ends
AnalysisInsightsChatReturns ==
    /\ analysis.pc = "running"
    /\ analysis.inflight = "insights"
    /\ \E outcome \in ChatOutcomes(InsightTexts) :
          analysis' = TaskReturns([analysis EXCEPT !.insights_reply = <<outcome>>],
                                  "insights", InsightsValue(outcome))
    /\ UNCHANGED <<insightCall, hotspot, outsideLLM>>

\* the loop over raw_results of gather: the results that are not None, in
\* the order of the items
RECURSIVE GatherResults(_, _)
GatherResults(items, i) ==
    IF i > Len(items) THEN <<>>
    ELSE items[i].value \o GatherResults(items, i + 1)

\* the first categorize_single waiting for a permit, 0 if none
FirstWaiter(items) ==
    IF \E j \in DOMAIN items : items[j].pc = "waiting"
    THEN CHOOSE j \in DOMAIN items :
            /\ items[j].pc = "waiting"
            /\ \A k \in DOMAIN items : items[k].pc = "waiting" => j <= k
    ELSE 0

\* the LLM call of categorize_news for item i ends: its permit goes to the
\* first waiting item, which sends its request; when it was the last item,
\* gather returns and categorize_batch with it
CategorizeChatReturns(i) ==
    /\ analysis.pc = "running"
    /\ analysis.inflight = "categories"
    /\ analysis.items[i].pc = "inflight"
    /\ \E outcome \in ChatOutcomes(CategoryTexts) :
          LET returned == [analysis.items EXCEPT
                              ![i] = [pc |-> "done", reply |-> <<outcome>>,
                                      value |-> categorize_news(outcome, i)]]
              w == FirstWaiter(returned)
              items == IF w = 0 THEN returned ELSE [returned EXCEPT ![w].pc = "inflight"]
              a == [analysis EXCEPT
                       !.items = items,
                       !.semaphore = IF w = 0 THEN @ + 1 ELSE @]
          IN analysis' = IF \A j \in DOMAIN items : items[j].pc = "done"
                         THEN TaskReturns(a, "categories", GatherResults(items, 1))
                         ELSE a
    /\ UNCHANGED <<insightCall, hotspot, outsideLLM>>

InitAnalyze ==
    /\ analysis \in {[NoAnalysis EXCEPT !.available = av, !.has_categories = hc,
                                        !.enable_briefing = eb, !.enable_insight = ei,
                                        !.enable_category = ec] :
                         av \in BOOLEAN, hc \in BOOLEAN, eb \in BOOLEAN,
                         ei \in BOOLEAN, ec \in BOOLEAN}
    /\ insightCall = NoInsightCall
    /\ hotspot = NoHotspot
    /\ client = NoClient
    /\ StoreIdle
    /\ retention_days = 7
    /\ RouterUnused

NextAnalyze ==
    \/ \E news_items \in 0..MaxNews : analyze_full(news_items)
    \/ BriefingChatReturns
    \/ AnalysisInsightsChatReturns
    \/ \E i \in DOMAIN analysis.items : CategorizeChatReturns(i)

SpecAnalyze == InitAnalyze /\ [][NextAnalyze]_vars

\* every categorize_news call of the batch has ended
AllCategorized ==
    /\ Len(analysis.items) = Min(analysis.news_items, CategorizeLimit)
    /\ \A i \in DOMAIN analysis.items : analysis.items[i].reply # None

\* C6: when analyze_full has run its sub-tasks, each enabled sub-task's field
\* of the result is what that sub-task's own LLM replies give, whatever became
\* of the other sub-tasks, and it is empty when the sub-task failed.
C6_SubtaskIsolation ==
    (analysis.pc = "done" /\ analysis.available /\ analysis.news_items > 0) =>
        LET result == analysis.result[1] IN
        /\ IF analysis.enable_briefing
           THEN /\ analysis.briefing_reply # None
                /\ result.daily_briefing =
                      (IF analysis.briefing_reply[1].ok
                       THEN analysis.briefing_reply[1].content ELSE <<>>)
           ELSE result.daily_briefing = <<>>
        /\ IF analysis.enable_insight
           THEN /\ analysis.insights_reply # None
                /\ result.insights =
                      (IF analysis.insights_reply[1].ok
                       THEN _parse_insights(analysis.insights_reply[1].content) ELSE <<>>)
           ELSE result.insights = <<>>
        /\ IF analysis.enable_category /\ analysis.has_categories
           THEN /\ AllCategorized
                /\ \A i \in DOMAIN analysis.items :
                      (\E j \in DOMAIN result.categories : result.categories[j].news_id = i)
                         <=> (/\ analysis.items[i].reply[1].ok
                              /\ analysis.items[i].reply[1].content # ProseReply)
                /\ \A j, k \in DOMAIN result.categories :
                      j < k => result.categories[j].news_id < result.categories[k].news_id
           ELSE result.categories = <<>>

\* all three sub-tasks ran, extract_insights failed, and the briefing and the
\* categories of the result are those of their own replies
C6_Witness ==
    /\ analysis.pc = "done"
    /\ analysis.tasks = <<"briefing", "insights", "categories">>
    /\ analysis.insights_reply # None
    /\ ~analysis.insights_reply[1].ok
    /\ analysis.result[1].insights = <<>>
    /\ analysis.result[1].daily_briefing = <<"briefing text">>
    /\ analysis.result[1].categories # <<>>

\* the sub-tasks run one after the other: while the request of a later
\* sub-task is in flight, every enabled sub-task before it has completed
SubtasksSequential ==
    (analysis.pc = "running" /\ analysis.inflight \in {"insights", "categories"}) =>
        /\ analysis.enable_briefing => analysis.briefing_reply # None
        /\ (analysis.inflight = "categories" /\ analysis.enable_insight)
              => analysis.insights_reply # None

\* C25: with the three flags on, analyze_full runs the three sub-tasks
\* concurrently: the LLM request of extract_insights (or of categorize_batch)
\* goes out while the request of generate_daily_briefing has not yet
\* completed, and the result is assembled only after all three have completed.
C25_SubtasksConcurrent ==
    [][(/\ analysis'.tasks = <<"briefing", "insights", "categories">>
        /\ analysis'.inflight \in {"insights", "categories"}
        /\ analysis.inflight # analysis'.inflight)
          => analysis'.briefing_reply = None]_vars

\* no LLM request was sent by the analyze_full call
NoRequestSent ==
    /\ analysis.briefing_reply = None
    /\ analysis.insights_reply = None
    /\ analysis.items = <<>>
    /\ analysis.inflight = Null

\* C30: whenever the client is available and the item list is non-empty,
\* analyze_full returns success = true with generated_at and model_used
\* populated, also when every enabled sub-task failed or no flag is on;
\* success = false is returned only when the client is unavailable or the
\* list is empty, and then no LLM request is sent.
C30_SuccessLaw ==
    analysis.pc = "done" =>
        LET result == analysis.result[1] IN
        /\ result.success <=> (analysis.available /\ analysis.news_items > 0)
        /\ result.success => (result.generated_at # "" /\ result.model_used # "")
        /\ ~result.success => NoRequestSent

\* C30 witness: the three sub-tasks were enabled, each sent its request, all
\* of them failed, and the result returned is a success with empty fields
C30_Witness ==
    /\ analysis.pc = "done"
    /\ analysis.tasks = <<"briefing", "insights", "categories">>
    /\ analysis.briefing_reply # None /\ ~analysis.briefing_reply[1].ok
    /\ analysis.insights_reply # None /\ ~analysis.insights_reply[1].ok
    /\ analysis.items # <<>>
    /\ \A i \in DOMAIN analysis.items : ~analysis.items[i].reply[1].ok
    /\ analysis.result[1].success
    /\ analysis.result[1].daily_briefing = <<>>
    /\ analysis.result[1].insights = <<>>
    /\ analysis.result[1].categories = <<>>

-----------------------------------------------------------------------------
(* LLMClient *)

\* os.environ.get(NAME) or self.config.get(key, '')
EnvOrConfig(env, cfg) == IF env # "" THEN env ELSE cfg

\* __init__ followed by _validate_config: a missing base url or key clears enabled
LLMClient(env, config) ==
    LET api_base_url == EnvOrConfig(env.LLM_API_BASE_URL, config.api_base_url)
        api_key == EnvOrConfig(env.LLM_API_KEY, config.api_key)
    IN [NoClient EXCEPT
           !.env = env,
           !.config = config,
           !.api_base_url = api_base_url,
           !.api_key = api_key,
           !.max_retries = config.max_retries,
           !.enabled = config.enabled /\ api_base_url # "" /\ api_key # ""]

\* (a client whose availability leaves the enabled switch out)
is_available_ignoring_enabled(c) == c.api_base_url # "" /\ c.api_key # ""

is_available(c) == c.enabled /\ c.api_base_url # "" /\ c.api_key # ""

\* what one POST to /chat/completions can end in: TimeoutError, a ClientError,
\* a response with a status other than 200, a 200 response whose body holds a
\* choice, a 200 response whose body cannot be used
Statuses == {401, 500}

HttpOutcomes ==
    {[kind |-> "timeout", status |-> 0, body |-> <<>>],
     [kind |-> "client_error", status |-> 0, body |-> <<>>],
     [kind |-> "response", status |-> 200, body |-> <<"content">>],
     [kind |-> "response", status |-> 200, body |-> <<"malformed">>]}
    \cup {[kind |-> "response", status |-> st, body |-> <<"error text">>] : st \in Statuses}

\* the attempt reaches `return ChatResponse(...)`
Succeeds(outcome) ==
    outcome.kind = "response" /\ outcome.status = 200 /\ outcome.body = <<"content">>

\* last_error as the three except clauses of chat set it
ErrorOf(outcome) ==
    CASE outcome.kind = "timeout" -> <<"request timed out">>
      [] outcome.kind = "client_error" -> <<"network error">>
      [] outcome.status # 200 -> <<"API request failed", outcome.status, outcome.body>>
      [] OTHER -> <<"exception", outcome.body>>

Raised(error) == [ok |-> FALSE, content |-> error]

\* 2 ** attempt
RECURSIVE Pow2(_)
Pow2(n) == IF n = 0 THEN 1 ELSE 2 * Pow2(n - 1)

\* (a loop that allows one attempt more)
MayRetryOnceMore(attempt, max_retries) == attempt <= max_retries

\* `if attempt < self.max_retries`, which is also when range(max_retries + 1)
\* has another attempt
MayRetry(attempt, max_retries) == attempt < max_retries

\* chat (and chat_simple, which calls it) up to its first request, or to the
\* RuntimeError raised when the client is not available
chat(op) ==
    /\ client.pc = "idle"
    /\ client' =
         IF ~is_available(client)
         THEN [client EXCEPT !.pc = "raised", !.op = op,
                             !.result = <<Raised(<<"LLM client unavailable">>)>>]
         ELSE [client EXCEPT !.pc = "awaiting", !.op = op, !.attempt = 0, !.sent = 1]
    /\ UNCHANGED outsideClient

\* the request of the current attempt ends: chat returns at a usable
\* response; otherwise it notes the error and sleeps before the next attempt,
\* or raises when no attempt is left
AttemptReturns ==
    /\ client.pc = "awaiting"
    /\ client.op \in {"chat", "chat_simple"}
    /\ \E outcome \in HttpOutcomes :
          client' =
            IF Succeeds(outcome)
            THEN [client EXCEPT !.pc = "returned",
                                !.requests = Append(@, outcome),
                                !.result = <<ChatResponse(outcome.body)>>]
            ELSE IF MayRetry(client.attempt, client.max_retries)
            THEN [client EXCEPT !.pc = "sleeping",
                                !.requests = Append(@, outcome),
                                !.last_error = <<ErrorOf(outcome)>>,
                                !.sleeps = Append(@, Pow2(client.attempt))]
            ELSE [client EXCEPT !.pc = "raised",
                                !.requests = Append(@, outcome),
                                !.last_error = <<ErrorOf(outcome)>>,
                                !.result = <<Raised(<<"LLM request failed", client.max_retries,
                                                      ErrorOf(outcome)>>)>>]
    /\ UNCHANGED outsideClient

\* asyncio.sleep returns and the next attempt sends its request
SleepEnds ==
    /\ client.pc = "sleeping"
    /\ client' = [client EXCEPT !.pc = "awaiting", !.attempt = @ + 1, !.sent = @ + 1]
    /\ UNCHANGED outsideClient

\* the lines of a streamed response body, after decode and strip
ContentLine == "data: {choices: [{delta: {content: x}}]}"
ContentLine2 == "data: {choices: [{delta: {content: y}}]}"
EmptyContentLine == "data: {choices: [{delta: {}}]}"
DoneLine == "data: [DONE]"
MalformedLine == "data: {"
EmptyLine == ""
OtherLine == ": keep-alive"

StreamLines ==
    {ContentLine, ContentLine2, EmptyContentLine, DoneLine, MalformedLine, EmptyLine, OtherLine}

\* json.loads(line[6:]) ... delta.get('content', ''): the content of a data
\* line, "" when it has none; a line that does not parse raises, which the
\* except clause swallows
DeltaContent(line) ==
    CASE line = ContentLine -> "x"
      [] line = ContentLine2 -> "y"
      [] OTHER -> ""

\* what the loop over response.content yields from line i on: empty lines and
\* the sentinel are passed over, a data line yields its non-empty content, a
\* line that does not parse is dropped
RECURSIVE StreamYields(_, _)
StreamYields(lines, i) ==
    IF i > Len(lines) THEN <<>>
    ELSE IF lines[i] = EmptyLine \/ lines[i] = DoneLine
    THEN StreamYields(lines, i + 1)
    ELSE (IF DeltaContent(lines[i]) # "" THEN <<DeltaContent(lines[i])>> ELSE <<>>)
         \o StreamYields(lines, i + 1)

\* chat_stream up to its request, or to the RuntimeError its first step raises
\* when the client is not available
chat_stream ==
    /\ client.pc = "idle"
    /\ client' =
         IF ~is_available(client)
         THEN [client EXCEPT !.pc = "raised", !.op = "chat_stream",
                             !.result = <<Raised(<<"LLM client unavailable">>)>>]
         ELSE [client EXCEPT !.pc = "streaming", !.op = "chat_stream", !.sent = 1]
    /\ UNCHANGED outsideClient

\* the streamed request ends: no except clause and no retry, so a timeout, a
\* transport error and a status other than 200 leave chat_stream as they are
StreamReturns ==
    /\ client.pc = "streaming"
    /\ \E outcome \in HttpOutcomes :
          IF outcome.kind = "response" /\ outcome.status = 200
          THEN \E n \in 0..MaxStreamLines : \E lines \in [1..n -> StreamLines] :
                  client' = [client EXCEPT !.pc = "returned",
                                           !.requests = Append(@, outcome),
                                           !.lines = lines,
                                           !.result = <<ChatResponse(StreamYields(lines, 1))>>]
          ELSE client' = [client EXCEPT !.pc = "raised",
                                        !.requests = Append(@, outcome),
                                        !.result = <<Raised(ErrorOf(outcome))>>]
    /\ UNCHANGED outsideClient

ClientConfigs ==
    [api_base_url : {"", "https://api/v1"}, api_key : {"", "sk-config"},
     enabled : BOOLEAN, max_retries : 0..MaxRetries]

ClientEnvs == [LLM_API_BASE_URL : {"", "https://env/v1"}, LLM_API_KEY : {"", "sk-env"}]

InitChat ==
    /\ client \in {LLMClient(env, config) : env \in ClientEnvs, config \in ClientConfigs}
    /\ insightCall = NoInsightCall
    /\ analysis = NoAnalysis
    /\ hotspot = NoHotspot
    /\ StoreIdle
    /\ retention_days = 7
    /\ RouterUnused

NextChat ==
    \/ \E op \in {"chat", "chat_simple"} : chat(op)
    \/ AttemptReturns
    \/ SleepEnds
    \/ chat_stream
    \/ StreamReturns

SpecChat == InitChat /\ [][NextChat]_vars

-----------------------------------------------------------------------------
(* LLMClient: properties *)

\* C12: one chat call sends at most max_retries + 1 requests; every request
\* but the last one failed (a timeout, a transport error or a status other
\* than 200 is retried), chat returns at the first usable response, and when
\* every attempt failed it raises an error carrying the last failure's message.
C12_RetryBudget ==
    client.op \in {"chat", "chat_simple"} =>
        /\ client.sent <= client.max_retries + 1
        /\ \A k \in DOMAIN client.requests :
              k < Len(client.requests) => ~Succeeds(client.requests[k])
        /\ \A k \in DOMAIN client.requests :
              Succeeds(client.requests[k]) =>
                 /\ client.pc = "returned"
                 /\ client.sent = k
                 /\ client.result[1] = ChatResponse(client.requests[k].body)
        /\ (client.pc = "returned") => Succeeds(client.requests[Len(client.requests)])
        /\ (client.pc = "raised" /\ client.sent > 0) =>
              /\ client.sent = client.max_retries + 1
              /\ Len(client.requests) = client.sent
              /\ \A k \in DOMAIN client.requests : ~Succeeds(client.requests[k])
              /\ ~client.result[1].ok
              /\ client.result[1].content[3] = ErrorOf(client.requests[client.sent])

\* C12 witness: after a timeout, a transport error and a 500 response, each
\* retried, the last attempt failed differently and chat raised its message
C12_Witness ==
    /\ client.pc = "raised"
    /\ client.sent = 3
    /\ client.requests[1].kind = "timeout"
    /\ client.requests[2].status = 500
    /\ client.requests[3].kind = "client_error"
    /\ client.result[1].content[3] = <<"network error">>

\* C13: the wait before the k-th retry of chat is 2^k seconds (2, 4, 8, ...),
\* so the first retry starts no sooner than 2 seconds after the first failure.
C13_BackoffFromTwo ==
    \A k \in DOMAIN client.sleeps : client.sleeps[k] = Pow2(k)

\* C14: a 5xx response is retried within the budget, and after a 4xx response
\* chat sends no further request, whatever max_retries is.
C14_FailFastOn4xx ==
    \A k \in DOMAIN client.requests :
        (client.requests[k].kind = "response" /\ client.requests[k].status \in 400..499)
           => client.sent = k

\* a non-empty base url and a non-empty api key are configured, each by the
\* config or by the environment
Configured(c) ==
    /\ c.env.LLM_API_BASE_URL # "" \/ c.config.api_base_url # ""
    /\ c.env.LLM_API_KEY # "" \/ c.config.api_key # ""

\* C15: is_available() is true exactly when a non-empty base url and a
\* non-empty api key are configured (by config or environment), whatever the
\* other configuration keys are; when it is false, chat, chat_simple and
\* chat_stream fail before any request is sent.  (Stated of the calls that
\* have evaluated is_available().)
C15_AvailableIffConfigured ==
    client.pc # "idle" =>
        /\ is_available(client) <=> Configured(client)
        /\ ~is_available(client) =>
              client.pc = "raised" /\ client.sent = 0 /\ client.requests = <<>>

\* C15 amended: is_available() is true exactly when the enabled key is true
\* (its default) and a non-empty base url and a non-empty api key are
\* configured (by config or environment), whatever max_retries is; when it is
\* false, chat, chat_simple and chat_stream fail before any request is sent.
C15_AvailableIffEnabledAndConfigured ==
    client.pc # "idle" =>
        /\ is_available(client) <=> (client.config.enabled /\ Configured(client))
        /\ ~is_available(client) =>
              /\ client.pc = "raised"
              /\ client.sent = 0
              /\ client.requests = <<>>
              /\ ~client.result[1].ok

\* C15 witness: base url and api key are configured, one by the environment
\* and one by the config, the enabled key is false, and chat_stream has failed
\* without a request
C15_Witness ==
    /\ client.env.LLM_API_BASE_URL # "" /\ client.config.api_base_url = ""
    /\ client.env.LLM_API_KEY = "" /\ client.config.api_key # ""
    /\ ~client.config.enabled
    /\ client.op = "chat_stream"
    /\ client.pc = "raised"
    /\ client.sent = 0



\* the lines of a stream that precede its first sentinel line
RECURSIVE BeforeDone(_)
BeforeDone(lines) ==
    IF lines = <<>> \/ Head(lines) = DoneLine THEN <<>>
    ELSE <<Head(lines)>> \o BeforeDone(Tail(lines))

\* C26: chat_stream stops at the "data: [DONE]" sentinel: it yields exactly the
\* non-empty delta contents of the well-formed data lines that precede the
\* sentinel, in order; malformed lines are skipped without ending the stream,
\* and nothing from a line after the sentinel is yielded.
C26_StopsAtDone ==
    (client.op = "chat_stream" /\ client.pc = "returned") =>
        LET before == BeforeDone(client.lines)
            contents == [i \in DOMAIN before |-> DeltaContent(before[i])]
        IN  client.result[1].content = SelectSeq(contents, LAMBDA c : c # "")

-----------------------------------------------------------------------------
(* PlaywrightScraper: the shared browser and the per-url context and page *)

(* The driver started and the browser launched by the scrape call i carry the
   number i, and so do the context and the page that call i created: a call
   starts at most one of each. *)

\* scrape call i returns: ScraperResult.success_result or ScraperResult.failure
ScrapeReturn(p, i, result) ==
    [p EXCEPT !.scrapes[i].pc = "returned", !.scrapes[i].result = result,
              !.scrapes[i].outcome = "none"]

\* self._browser.new_context(...) is called: on the browser self._browser
\* names at that moment; on None the attribute lookup raises and the except
\* clause of scrape returns a failure
CallNewContext(p, i) ==
    IF p._browser = None
    THEN ScrapeReturn(p, i, "failure")
    ELSE [p EXCEPT !.scrapes[i].pc = "new_context", !.scrapes[i].browser = p._browser]

\* scrape(url) up to its first await: _ensure_browser finds a browser and
\* scrape goes on to new_context, or finds none and imports playwright, which
\* raises ImportError when the package is missing, and starts the driver.
\* (The calls are numbered in the order in which they are made.)
PlaywrightScrape(i) ==
    /\ pw.scrapes[i].pc = "idle"
    /\ \A j \in 1..(i - 1) : pw.scrapes[j].pc # "idle"
    /\ \/ /\ pw._browser # None
          /\ pw' = CallNewContext(pw, i)
       \/ /\ pw._browser = None
          /\ \/ pw' = [pw EXCEPT !.scrapes[i].pc = "start"]
             \/ pw' = ScrapeReturn(pw, i, "failure")
    /\ UNCHANGED outsidePlaywright

\* async_playwright().start() returns a driver, which self._playwright then
\* names, and chromium.launch is called on it; or it raises
StartReturns(i) ==
    /\ pw.scrapes[i].pc = "start"
    /\ \/ pw' = [pw EXCEPT !.drivers = @ \cup {i}, !._playwright = <<i>>,
                           !.scrapes[i].pc = "launch"]
       \/ pw' = ScrapeReturn(pw, i, "failure")
    /\ UNCHANGED outsidePlaywright

\* chromium.launch returns a browser, which self._browser then names, and
\* scrape goes on to new_context; or it raises (no browser binary, or the
\* driver was stopped meanwhile)
LaunchReturns(i) ==
    /\ pw.scrapes[i].pc = "launch"
    /\ \/ /\ i \in pw.drivers
          /\ pw' = CallNewContext([pw EXCEPT !.browsers = @ \cup {i}, !._browser = <<i>>,
                                             !.launches = @ + 1], i)
       \/ pw' = ScrapeReturn(pw, i, "failure")
    /\ UNCHANGED outsidePlaywright

\* new_context returns a context and new_page is called on it; or it raises
\* (always when the browser has been closed meanwhile)
NewContextReturns(i) ==
    /\ pw.scrapes[i].pc = "new_context"
    /\ \/ /\ pw.scrapes[i].browser[1] \in pw.browsers
          /\ pw' = [pw EXCEPT !.contexts = @ \cup {i}, !.scrapes[i].pc = "new_page"]
       \/ pw' = ScrapeReturn(pw, i, "failure")
    /\ UNCHANGED outsidePlaywright

\* context.new_page returns a page and the inner try block is entered with
\* page.goto; or it raises, before the inner try block
NewPageReturns(i) ==
    /\ pw.scrapes[i].pc = "new_page"
    /\ \/ /\ i \in pw.contexts
          /\ pw' = [pw EXCEPT !.pages = @ \cup {i}, !.scrapes[i].pc = "goto"]
       \/ pw' = ScrapeReturn(pw, i, "failure")
    /\ UNCHANGED outsidePlaywright

\* the finally clause is entered with what the inner try block ended in
CallPageClose(p, i, outcome) ==
    [p EXCEPT !.scrapes[i].pc = "page_close", !.scrapes[i].outcome = outcome]

\* page.goto and page.wait_for_timeout return, or one of them raises
\* TimeoutError or another exception
GotoReturns(i) ==
    /\ pw.scrapes[i].pc = "goto"
    /\ \/ pw' = [pw EXCEPT !.scrapes[i].pc = "extract"]
       \/ \E outcome \in {"timeout", "exception"} : pw' = CallPageClose(pw, i, outcome)
    /\ UNCHANGED outsidePlaywright

\* _extract_content returns the content, or raises
ExtractReturns(i) ==
    /\ pw.scrapes[i].pc = "extract"
    /\ \E outcome \in {"success", "exception"} : pw' = CallPageClose(pw, i, outcome)
    /\ UNCHANGED outsidePlaywright

\* finally: page.close() returns and context.close() is called; or it raises,
\* the page is not closed, and the exception leaves the finally clause
PageCloseReturns(i) ==
    /\ pw.scrapes[i].pc = "page_close"
    /\ \/ pw' = [pw EXCEPT !.pages = @ \ {i}, !.scrapes[i].pc = "context_close"]
       \/ pw' = ScrapeReturn(pw, i, "failure")
    /\ UNCHANGED outsidePlaywright

\* finally: context.close() returns and scrape returns what the try block
\* ended in; or it raises and the context is not closed
ContextCloseReturns(i) ==
    /\ pw.scrapes[i].pc = "context_close"
    /\ \/ pw' = ScrapeReturn([pw EXCEPT !.contexts = @ \ {i}, !.pages = @ \ {i}], i,
                             IF pw.scrapes[i].outcome = "success" THEN "success" ELSE "failure")
       \/ pw' = ScrapeReturn([pw EXCEPT !.scrapes[i].context_close_failed = TRUE],
                             i, "failure")
    /\ UNCHANGED outsidePlaywright

\* close() has closed the browser or found none: it goes on to the driver
CloseDriver(p) ==
    IF p._playwright # None
    THEN [p EXCEPT !.closing = [pc |-> "stop", target |-> p._playwright]]
    ELSE [p EXCEPT !.closing = [pc |-> "idle", target |-> None]]

\* close() up to its first await
PlaywrightClose ==
    /\ pw.closing.pc = "idle"
    /\ pw.closes < MaxCloses
    /\ LET p == [pw EXCEPT !.closes = @ + 1, !.launches = 0]
       IN  pw' = IF p._browser # None
                 THEN [p EXCEPT !.closing = [pc |-> "browser_close", target |-> p._browser]]
                 ELSE CloseDriver(p)
    /\ UNCHANGED outsidePlaywright

\* self._browser.close() returns: that browser is gone with its contexts and
\* pages, self._browser is set to None, and the driver is stopped next
BrowserCloseReturns ==
    /\ pw.closing.pc = "browser_close"
    /\ LET b == pw.closing.target[1]
           open == {i \in pw.contexts : pw.scrapes[i].browser = <<b>>}
       IN  pw' = CloseDriver([pw EXCEPT !.browsers = @ \ {b}, !.contexts = @ \ open,
                                        !.pages = @ \ open, !._browser = None])
    /\ UNCHANGED outsidePlaywright

\* self._playwright.stop() returns: that driver is gone with the browser it
\* launched, and self._playwright is set to None
StopReturns ==
    /\ pw.closing.pc = "stop"
    /\ LET d == pw.closing.target[1]
           open == {i \in pw.contexts : pw.scrapes[i].browser = <<d>>}
       IN  pw' = [pw EXCEPT !.drivers = @ \ {d}, !.browsers = @ \ {d},
                            !.contexts = @ \ open, !.pages = @ \ open,
                            !._playwright = None,
                            !.closing = [pc |-> "idle", target |-> None]]
    /\ UNCHANGED outsidePlaywright

InitPlaywright ==
    /\ RouterUnused
    /\ StoreIdle
    /\ retention_days = 7
    /\ LLMIdle

NextPlaywright ==
    \/ \E i \in 1..MaxScrapes : PlaywrightScrape(i)
    \/ \E i \in 1..MaxScrapes : StartReturns(i)
    \/ \E i \in 1..MaxScrapes : LaunchReturns(i)
    \/ \E i \in 1..MaxScrapes : NewContextReturns(i)
    \/ \E i \in 1..MaxScrapes : NewPageReturns(i)
    \/ \E i \in 1..MaxScrapes : GotoReturns(i)
    \/ \E i \in 1..MaxScrapes : ExtractReturns(i)
    \/ \E i \in 1..MaxScrapes : PageCloseReturns(i)
    \/ \E i \in 1..MaxScrapes : ContextCloseReturns(i)
    \/ PlaywrightClose
    \/ BrowserCloseReturns
    \/ StopReturns

SpecPlaywright == InitPlaywright /\ [][NextPlaywright]_vars

-----------------------------------------------------------------------------
(* PlaywrightScraper: properties *)

\* the scrape calls that are between their call and their return
Running == {i \in 1..MaxScrapes : pw.scrapes[i].pc \notin {"idle", "returned"}}

\* C23: for any number of concurrent scrape calls on one scraper the browser is
\* launched at most once between two close() calls, all concurrent fetches use
\* the same browser instance, and no launched browser or started driver is
\* left running without being referenced by the scraper.
C23_SingleBrowser ==
    /\ pw.launches <= 1
    /\ \A i, j \in Running :
          (pw.scrapes[i].browser # None /\ pw.scrapes[j].browser # None)
              => pw.scrapes[i].browser = pw.scrapes[j].browser
    /\ \A b \in pw.browsers : pw._browser = <<b>>
    /\ \A d \in pw.drivers : pw._playwright = <<d>>

\* C24: every browsing context and page that a scrape call created is closed
\* by the time the call returns, on every exit path: success, navigation
\* timeout, extraction exception, failure to create the page, and failure of
\* page.close itself (a context whose own close() raised is left aside).
C24_ContextsReleased ==
    \A i \in 1..MaxScrapes :
        (pw.scrapes[i].pc = "returned" /\ ~pw.scrapes[i].context_close_failed)
            => (i \notin pw.contexts /\ i \notin pw.pages)

=============================================================================
